---------------------------- MODULE Spec2Model ----------------------------
(***************************************************************************)
(* A model of the wispbit code-review engine.                              *)
(*                                                                         *)
(*   packages/cli/src/codeReview.ts  runCodeReview, processFile            *)
(*   packages/cli/src/context.ts     the lowdb review cache (db.ts part)   *)
(*   unnamed/part_011                CodeReviewer.runPromptAndGetAnalysis  *)
(*   packages/sdk/src/tools.ts       the complaint tool                    *)
(*   packages/sdk/src/patchParser.ts the patch analyzer                    *)
(*                                                                         *)
(* JavaScript runs one callback at a time: an action of this module is one *)
(* synchronous stretch of code, from the resumption after an await to the  *)
(* next await that really suspends on I/O.                                 *)
(***************************************************************************)
EXTENDS Integers, Sequences, FiniteSets, Bags, TLC

VARIABLES
    \* ---- runCodeReview (codeReview.ts) ----
    files,              \* the FileChange list of the run, a sequence of file ids
    rules,              \* the rules loaded for the run, a sequence of rule records
    sha,                \* sha[f]: FileChange.sha = hashString(patch) of file f
    runState,           \* "idle" | "running" | "returned" | "aborted"
    aborted,            \* abortController.signal.aborted
    fileQueue,          \* const fileQueue = [...files]
    processingPromises, \* files whose processFile promise has been pushed
    awaited,            \* the promises Promise.all was called with
    pc,                 \* pc[f]: where processFile(f) is suspended
    returnViolations,   \* the entries pushed so far
    returned,           \* the entries in the list at the moment of the return
    events,             \* events[f]: statuses passed to onUpdateFile for f
    onCompleteCalls,    \* number of onComplete() calls
    onAbortCalls,       \* number of onAbort() calls
    llmCalls,           \* llmCalls[f]: completion requests issued for f this run
    lookupHit,          \* lookupHit[f]: hasReviewedFileWithSameHash returned true
    lookupFile,         \* lookupFile[f]: the review_files row its find() returned
    analysis,           \* analysis[f]: the FileAnalysis codeReviewFile returned
    \* ---- the cache (context.ts) ----
    mtime,              \* mtime[w]: mtimeMs of workspace file w
    dbFile,             \* wispbit-cache.json on disk
    dbData,             \* db.data, the in-memory document of the one Low instance
    save,               \* save[f]: locals of a suspended saveFileReview(f)
    runs,               \* number of runCodeReview runs started
    visitLog,           \* history: the freshness tokens of the files each review visited
    \* ---- one file review (CodeReviewer.runPromptAndGetAnalysis) ----
    patch,              \* file.patch of the file under review, a sequence of lines
    reviewPc,           \* "idle" | "llm" | "validate" | "done" | "failed"
    round,              \* completion responses with tool calls handled so far
    violations,         \* const violations: Violation[]
    violationsToValidate, \* the complaints of the current response the executor accepted
    rejectedViolations, \* the complaints the validator turned down
    visitedFiles,       \* let visitedFiles: string[]
    \* ---- the conversation of one file review and its completion attempts ----
    messages,           \* const messages: the assistant and tool turns pushed so far
    response,           \* response.toolCalls of the assistant turn being executed
    finishOrder,        \* positions of toolCallPromises already resolved, in that order
    attempt,            \* attemptNumber of the reviewer's pRetry, 0 when none runs
    validation,         \* validation[i]: the validateViolation call of violationsToValidate[i]
    verdictLog,         \* history: the bag of the validator's answers
    \* ---- one call of a library function ----
    call,               \* the function called and its arguments
    result              \* what the call returned, Pending before it returns

orchVars == <<files, rules, sha, runState, aborted, fileQueue, processingPromises,
              awaited, pc, returnViolations, returned, events, onCompleteCalls,
              onAbortCalls, llmCalls, lookupHit, lookupFile, analysis>>
cacheVars == <<mtime, dbFile, dbData, save, runs, visitLog>>
reviewVars == <<patch, reviewPc, round, violations, violationsToValidate,
                rejectedViolations, visitedFiles>>
turnVars == <<messages, response, finishOrder, attempt, validation, verdictLog>>
fnVars == <<call, result>>
vars == <<orchVars, cacheVars, reviewVars, turnVars, fnVars>>

----------------------------------------------------------------------------
(* Bounds of the model *)

\* files of the pool specification (one more than MAX_CONCURRENT)
NumPoolFiles == 11
\* cap on the onAbort() counter
MaxAbortCalls == 3
\* runs of runCodeReview over the same cache
MaxRuns == 3
\* changed files of the cache specification
NumCacheFiles == 2
\* times the visited workspace file is modified
MaxTouch == 1

(* Program constants *)

\* const MAX_CONCURRENT = 10
MAX_CONCURRENT == 10

Min(a, b) == IF a < b THEN a ELSE b
Max(a, b) == IF a > b THEN a ELSE b

RangeOf(s) == {s[i] : i \in 1..Len(s)}

\* Array.prototype.filter
RECURSIVE SelectSeqBy(_, _)
SelectSeqBy(s, S) ==
    IF s = <<>> THEN <<>>
    ELSE IF Head(s) \in S THEN <<Head(s)>> \o SelectSeqBy(Tail(s), S)
    ELSE SelectSeqBy(Tail(s), S)

----------------------------------------------------------------------------
(* Rules.  A rule record is [id, content, scope]: id is the CodebaseRule id *)
(* (hash of directory + name), content stands for createRuleFile(rule), the *)
(* include list and the body, and scope is the set of files its include     *)
(* patterns match.                                                          *)

\* filterRules(rules, filePath): rules.filter(rule => matchesInclude(rule, filePath))
filterRules(rs, f) == SelectSeqBy(rs, {r \in RangeOf(rs) : f \in r.scope})

----------------------------------------------------------------------------
(* processFile: the synchronous prefix and the finally block.  A state of  *)
(* the orchestrator is passed through as a record s.                       *)

OrchState == [q |-> fileQueue, pc |-> pc, ev |-> events, prom |-> processingPromises,
              ab |-> onAbortCalls]

CapAbort(n) == Min(n, MaxAbortCalls)

RECURSIVE ProcessFileSync(_, _, _, _)
RECURSIVE FinallyDispatch(_, _, _)

\* a finally block that starts the next file whether aborted or not
FinallyDispatchAlways(s, rs, ab) ==
    IF Len(s.q) > 0
    THEN LET nextFile == Head(s.q)
         IN  [s EXCEPT !.q = Tail(s.q),
                       !.pc[nextFile] = "lookup",
                       !.ev[nextFile] = @ \o <<"processing", "processing">>,
                       !.prom = @ \cup {nextFile}]
    ELSE s

\* finally { if (fileQueue.length > 0 && !aborted) { processFile(fileQueue.shift()) ... push } }
FinallyDispatch(s, rs, ab) ==
    IF Len(s.q) > 0 /\ ~ab
    THEN LET nextFile == Head(s.q)
             t == ProcessFileSync([s EXCEPT !.q = Tail(s.q)], nextFile, rs, ab)
         IN  [t EXCEPT !.prom = @ \cup {nextFile}]
    ELSE s

\* processFile(file) up to its first await (or to its end, when it has none)
ProcessFileSync(s, f, rs, ab) ==
    IF ab
    THEN \* onAbort(); return; the finally block dispatches nothing once aborted
         FinallyDispatch([s EXCEPT !.pc[f] = "done", !.ab = CapAbort(@ + 1)], rs, ab)
    ELSE IF filterRules(rs, f) = <<>>
    THEN FinallyDispatch(
             [s EXCEPT !.pc[f] = "done",
                       !.ev[f] = @ \o <<"processing", "skipped:no matching rules">>],
             rs, ab)
    ELSE \* processing, processing with rules, then await hasReviewedFileWithSameHash
         [s EXCEPT !.pc[f] = "lookup",
                   !.ev[f] = @ \o <<"processing", "processing">>]

\* a start loop that is not bounded by MAX_CONCURRENT
RECURSIVE InitialBatchUncapped(_, _, _, _)
InitialBatchUncapped(s, i, rs, ab) ==
    IF Len(s.q) = 0 THEN s
    ELSE LET file == Head(s.q)
             t == ProcessFileSync([s EXCEPT !.q = Tail(s.q)], file, rs, ab)
         IN  InitialBatchUncapped([t EXCEPT !.prom = @ \cup {file}], i - 1, rs, ab)

\* for (let i = 0; i < initialBatchSize; i++) { file = fileQueue.shift(); if (file) ... }
RECURSIVE InitialBatch(_, _, _, _)
InitialBatch(s, i, rs, ab) ==
    IF i = 0 \/ Len(s.q) = 0 THEN s
    ELSE LET file == Head(s.q)
             t == ProcessFileSync([s EXCEPT !.q = Tail(s.q)], file, rs, ab)
         IN  InitialBatch([t EXCEPT !.prom = @ \cup {file}], i - 1, rs, ab)

----------------------------------------------------------------------------
(* runCodeReview *)

\* onStart, the abort check, the initial batch, and the call of Promise.all.
\* abortInOnStart: the onStart hook is handed the abortController and may
\* abort before it returns.
StartRun(abortInOnStart) ==
    /\ runState = "idle"
    /\ runs < MaxRuns
    /\ runs' = runs + 1
    /\ IF abortInOnStart
       THEN \* onAbort(); throw new AbortError(); catch; finally { onAbort() }
            /\ aborted' = TRUE
            /\ onAbortCalls' = CapAbort(onAbortCalls + 2)
            /\ runState' = "aborted"
            /\ UNCHANGED <<fileQueue, pc, events, processingPromises, awaited>>
       ELSE LET s == InitialBatch([OrchState EXCEPT !.q = files],
                                  Min(MAX_CONCURRENT, Len(files)), rules, FALSE)
            IN  /\ fileQueue' = s.q
                /\ pc' = s.pc
                /\ events' = s.ev
                /\ processingPromises' = s.prom
                /\ onAbortCalls' = s.ab
                /\ awaited' = s.prom
                /\ runState' = "running"
                /\ UNCHANGED aborted
    /\ UNCHANGED reviewVars
    /\ UNCHANGED turnVars
    /\ UNCHANGED fnVars
    /\ UNCHANGED <<files, rules, sha, returnViolations, returned, onCompleteCalls,
                   llmCalls, lookupHit, lookupFile, analysis, mtime, dbFile, dbData, save,
                   visitLog>>

\* the user cancels: abortController.abort()
Abort ==
    /\ runState = "running"
    /\ ~aborted
    /\ aborted' = TRUE
    /\ UNCHANGED reviewVars
    /\ UNCHANGED turnVars
    /\ UNCHANGED fnVars
    /\ UNCHANGED <<files, rules, sha, runState, fileQueue, processingPromises, awaited,
                   pc, returnViolations, returned, events, onCompleteCalls,
                   onAbortCalls, llmCalls, lookupHit, lookupFile, analysis, cacheVars>>

\* await Promise.all(processingPromises) resumes: every promise of the array
\* Promise.all was called with has settled.  onComplete or onAbort, return,
\* finally { onAbort() }.
AllSettled ==
    /\ runState = "running"
    /\ \A f \in awaited : pc[f] = "done"
    /\ IF aborted
       THEN /\ onAbortCalls' = CapAbort(onAbortCalls + 2)
            /\ UNCHANGED onCompleteCalls
       ELSE /\ onCompleteCalls' = onCompleteCalls + 1
            /\ onAbortCalls' = CapAbort(onAbortCalls + 1)
    /\ returned' = returnViolations
    /\ runState' = "returned"
    /\ UNCHANGED reviewVars
    /\ UNCHANGED turnVars
    /\ UNCHANGED fnVars
    /\ UNCHANGED <<files, rules, sha, aborted, fileQueue, processingPromises, awaited,
                   pc, returnViolations, events, llmCalls, lookupHit, lookupFile, analysis,
                   cacheVars>>

\* The end of processFile(f): what it reported (ev), whether it pushed an
\* entry, and the finally block.
EndTask(f, ev, entries) ==
    LET s == FinallyDispatch([OrchState EXCEPT !.pc[f] = "done", !.ev[f] = @ \o ev],
                             rules, aborted)
    IN  /\ fileQueue' = s.q
        /\ pc' = s.pc
        /\ events' = s.ev
        /\ processingPromises' = s.prom
        /\ onAbortCalls' = s.ab
        /\ returnViolations' = returnViolations \cup entries

----------------------------------------------------------------------------
(* The pool specification: the body of processFile between its first await *)
(* and its finally block is one step with a given outcome.                 *)

\* files whose outcome varies in the pool specification
MaxVariedFiles == 2

PoolOutcomes(f) ==
    IF f <= MaxVariedFiles THEN {"completed", "cached", "error", "saveError"}
    ELSE {"completed"}

\* a catch block that reports nothing
CatchEventsNone == <<>>

\* catch (error) { if (!aborted) onUpdateFile(skipped, error) }
CatchEvents == IF aborted THEN <<>> ELSE <<"skipped:error">>

Settle(f, outcome) ==
    /\ pc[f] = "lookup"
    /\ outcome \in PoolOutcomes(f)
    /\ CASE outcome = "completed" ->
              EndTask(f, <<"completed">>, {[fileName |-> f, violations |-> <<>>]})
         [] outcome = "cached" ->
              EndTask(f, <<"skipped:cached">>, {[fileName |-> f, violations |-> <<>>]})
         [] outcome = "error" ->
              EndTask(f, CatchEvents, {})
         [] outcome = "saveError" ->
              EndTask(f, <<"completed">> \o CatchEvents, {})
    /\ UNCHANGED reviewVars
    /\ UNCHANGED turnVars
    /\ UNCHANGED fnVars
    /\ UNCHANGED <<files, rules, sha, runState, aborted, awaited, returned,
                   onCompleteCalls, llmCalls, lookupHit, lookupFile, analysis, cacheVars>>

----------------------------------------------------------------------------
(* The review cache (context.ts, second part: db.ts).                      *)
(*                                                                         *)
(* One Low instance is shared by every call (the databases map).  Of lowdb *)
(* the model keeps what its documentation states: db.read() replaces       *)
(* db.data by a fresh object parsed from the file, db.write() writes       *)
(* db.data as it is at the call.  Here both are single steps, the most     *)
(* favourable reading: real reads and writes take time.                    *)

\* hashString(createRuleFile(rule))
RuleFileHash(r) == r.content

\* getFileSha(root, fileName): hashString(`${fileName}:${mtimeMs}`)
getFileSha(w) == <<w, mtime[w]>>

\* codebaseRules.map(r => hashString(createRuleFile(r)))
RuleIds(rs) == {RuleFileHash(r) : r \in RangeOf(rs)}

\* f.rule_ids.every(id => ruleIds.includes(id))
RuleIdsMatch(stored, current) == stored \subseteq current

\* db.data.review_files.find(f => f.fileName === fileName && f.fileSha === hash && ...):
\* the index of the first such row, 0 when there is none
FindReviewFile(db, f, hash, rs) ==
    LET hits == {i \in 1..Len(db.review_files) :
                    /\ db.review_files[i].fileName = f
                    /\ db.review_files[i].fileSha = hash
                    /\ RuleIdsMatch(db.review_files[i].rule_ids, RuleIds(rs))}
    IN  IF hits = {} THEN 0 ELSE CHOOSE i \in hits : \A j \in hits : i <= j

\* db.data.visited_files.filter(v => v.review_file_id === file.id)
VisitedRowsOf(db, id) ==
    {i \in 1..Len(db.visited_files) : db.visited_files[i].review_file_id = id}

\* hasReviewedFileWithSameHash(root, fileName, hash, codebaseRules) on document db
hasReviewedFileWithSameHash(db, f, hash, rs) ==
    LET i == FindReviewFile(db, f, hash, rs)
    IN  /\ i # 0
        /\ \A k \in VisitedRowsOf(db, db.review_files[i].id) :
              getFileSha(db.visited_files[k].fileName) = db.visited_files[k].fileSha

\* db.data.review_violations.filter(v => v.fileName === fileName && v.fileSha === hash)
ViolationRowsFor(db, f, hash) ==
    SelectSeq(db.review_violations, LAMBDA v : v.fileName = f /\ v.fileSha = hash)

\* getViolationsForFile: violations.map(violation => ({ description, line, ruleId }))
RECURSIVE MapViolationDetail(_)
MapViolationDetail(rows) ==
    IF rows = <<>> THEN <<>>
    ELSE <<[description |-> Head(rows).description,
            line |-> [start |-> Head(rows).lineNumberStart,
                      end |-> Head(rows).lineNumberEnd,
                      side |-> Head(rows).lineNumberSide],
            ruleId |-> Head(rows).rule_id]>> \o MapViolationDetail(Tail(rows))

getViolationsForFile(db, f, hash) == MapViolationDetail(ViolationRowsFor(db, f, hash))

\* allowedRules.find(r => r.id === v.description) || allowedRules[0]
CachedRule(allowed, v) ==
    LET m == SelectSeq(allowed, LAMBDA r : r.id = v.description)
    IN  IF m # <<>> THEN Head(m) ELSE Head(allowed)

\* cachedViolations.map(v => ({ description, line, rule, isCached: true, reason: "" }))
RECURSIVE MapCached(_, _)
MapCached(allowed, vs) ==
    IF vs = <<>> THEN <<>>
    ELSE <<[description |-> Head(vs).description,
            line |-> Head(vs).line,
            rule |-> CachedRule(allowed, Head(vs)),
            isCached |-> TRUE]>> \o MapCached(allowed, Tail(vs))

\* `${file.filename}-${file.sha}-${Date.now()}`; the clock reads the run number
FileId(f) == <<f, sha[f], runs>>

\* one review_violations row per violation
RECURSIVE ViolationRows(_, _)
ViolationRows(f, vs) ==
    IF vs = <<>> THEN <<>>
    ELSE <<[id |-> <<Head(vs).rule.id, f, Head(vs).line.start, runs>>,
            rule_id |-> Head(vs).rule.id,
            description |-> Head(vs).description,
            fileName |-> f,
            fileSha |-> sha[f],
            lineNumberStart |-> Head(vs).line.start,
            lineNumberEnd |-> Head(vs).line.end,
            lineNumberSide |-> Head(vs).line.side]>> \o ViolationRows(f, Tail(vs))

\* saveFileReview from the resumption after db.read() to the loop over
\* visitedFiles: the rules, the review_files row and the review_violations rows
SavePushRows(db, f, vs, allowed) ==
    [db EXCEPT !.rules = @ \cup RuleIds(allowed),
               !.review_files = Append(@, [id |-> FileId(f), fileName |-> f,
                                           fileSha |-> sha[f], cost |-> 0,
                                           rule_ids |-> RuleIds(allowed)]),
               !.review_violations = @ \o ViolationRows(f, vs)]

\* db.data.visited_files.find(f => f.fileName === visitedFile)
HasVisitedRow(db, w) == \E i \in 1..Len(db.visited_files) : db.visited_files[i].fileName = w

\* for (const visitedFile of visitedFiles): the index of the first visited file
\* at or after idx that has no row yet (the loop awaits getFileSha for it),
\* Len + 1 when the loop ends
RECURSIVE NextVisit(_, _, _)
NextVisit(db, visited, idx) ==
    IF idx > Len(visited) THEN idx
    ELSE IF HasVisitedRow(db, visited[idx]) THEN NextVisit(db, visited, idx + 1)
    ELSE idx

\* db.read() gives db.data a new object: an array a suspended saveFileReview
\* took from the old object (db.data.visited_files.push(... await ...)) is no
\* longer part of db.data
MarkStale(sv) ==
    [g \in DOMAIN sv |-> IF pc[g] = "visit" THEN [sv[g] EXCEPT !.stale = TRUE] ELSE sv[g]]

PoolRule == [id |-> "r1", content |-> "c1", scope |-> 1..NumPoolFiles]
PoolRuleSkipping == [id |-> "r1", content |-> "c1", scope |-> (1..NumPoolFiles) \ {2}]

\* find() returned undefined
NoRow == [id |-> <<>>]

EmptyDb == [rules |-> {}, review_files |-> <<>>, review_violations |-> <<>>,
            visited_files |-> <<>>]

\* no file review is modelled in detail
NoReview ==
    /\ patch = <<>>
    /\ reviewPc = "idle"
    /\ round = 0
    /\ violations = <<>>
    /\ violationsToValidate = <<>>
    /\ rejectedViolations = <<>>
    /\ visitedFiles = <<>>

\* no conversation is modelled
NoTurns ==
    /\ messages = <<>>
    /\ response = <<>>
    /\ finishOrder = <<>>
    /\ attempt = 0
    /\ validation = <<>>
    /\ verdictLog = EmptyBag

\* a call that has not returned; a returned value v is held as <<v>>
Pending == <<>>

\* no library call is modelled
NoCall ==
    /\ call = Pending
    /\ result = Pending

InitPool ==
    /\ files = [i \in 1..NumPoolFiles |-> i]
    /\ rules \in {<<PoolRule>>, <<PoolRuleSkipping>>}
    /\ sha = [f \in 1..NumPoolFiles |-> 1]
    /\ runState = "idle"
    /\ aborted = FALSE
    /\ fileQueue = <<>>
    /\ processingPromises = {}
    /\ awaited = {}
    /\ pc = [f \in 1..NumPoolFiles |-> "queued"]
    /\ returnViolations = {}
    /\ returned = {}
    /\ events = [f \in 1..NumPoolFiles |-> <<>>]
    /\ onCompleteCalls = 0
    /\ onAbortCalls = 0
    /\ llmCalls = [f \in 1..NumPoolFiles |-> 0]
    /\ lookupHit = [f \in 1..NumPoolFiles |-> FALSE]
    /\ lookupFile = [f \in 1..NumPoolFiles |-> NoRow]
    /\ analysis = [f \in 1..NumPoolFiles |-> <<>>]
    /\ mtime = <<>>
    /\ dbFile = EmptyDb
    /\ dbData = EmptyDb
    /\ save = <<>>
    /\ runs = 0
    /\ visitLog = {}
    /\ NoReview
    /\ NoTurns
    /\ NoCall

NextPool ==
    \/ \E a \in BOOLEAN : StartRun(a)
    \/ Abort
    \/ AllSettled
    \/ \E f \in 1..NumPoolFiles, o \in {"completed", "cached", "error", "saveError"} :
          Settle(f, o)

SpecPool == InitPool /\ [][NextPool]_vars

\* every awaited operation of a started task is settled in the end
PoolFairness == WF_vars(\E f \in 1..NumPoolFiles : \E o \in PoolOutcomes(f) : Settle(f, o))
SpecPoolFair == SpecPool /\ PoolFairness

----------------------------------------------------------------------------
(* processFile in detail: the cache specification *)

\* workspace files: the changed files, and one more that reviews may read
CacheFiles == 1..NumCacheFiles
VisitedOnly == NumCacheFiles + 1

R1 == [id |-> "r1", content |-> "c1", scope |-> CacheFiles]
R2 == [id |-> "r2", content |-> "c2", scope |-> CacheFiles]
RuleSeqs == {<<R1>>, <<R1, R2>>}

\* what a review may report for a rule
Finding(r) ==
    [description |-> IF r.id = "r1" THEN "d1" ELSE "d2",
     line |-> IF r.id = "r1" THEN [start |-> 1, end |-> 1, side |-> "right"]
              ELSE [start |-> 2, end |-> 3, side |-> "left"],
     rule |-> r]

\* the violation lists a review over the rules `allowed` may return
ReviewViolations(allowed) ==
    IF allowed = <<>> THEN {<<>>}
    ELSE {<<>>, <<Finding(allowed[Len(allowed)])>>}

\* the visitedFiles lists a review may return
VisitChoices == {<<>>, <<VisitedOnly>>}

\* a lookup whose hit does not end the task: the reviewer is asked all the same
LookupThenReview(f) ==
    /\ pc[f] = "lookup"
    /\ LET hit == hasReviewedFileWithSameHash(dbFile, f, sha[f], filterRules(rules, f))
           i == FindReviewFile(dbFile, f, sha[f], filterRules(rules, f))
       IN  /\ lookupHit' = [lookupHit EXCEPT ![f] = hit]
           /\ lookupFile' = [lookupFile EXCEPT ![f] =
                                IF i = 0 THEN NoRow ELSE dbFile.review_files[i]]
           /\ pc' = [pc EXCEPT ![f] = "review"]
           /\ llmCalls' = [llmCalls EXCEPT ![f] = IF sha[f] = 0 THEN @ ELSE @ + 1]
    /\ dbData' = dbFile
    /\ save' = MarkStale(save)
    /\ UNCHANGED reviewVars
    /\ UNCHANGED turnVars
    /\ UNCHANGED fnVars
    /\ UNCHANGED <<files, rules, sha, runState, aborted, fileQueue, processingPromises,
                   awaited, returnViolations, returned, events, onCompleteCalls,
                   onAbortCalls, analysis, mtime, dbFile, runs, visitLog>>

\* await hasReviewedFileWithSameHash(...) resumes
Lookup(f) ==
    /\ pc[f] = "lookup"
    /\ LET hit == hasReviewedFileWithSameHash(dbFile, f, sha[f], filterRules(rules, f))
           i == FindReviewFile(dbFile, f, sha[f], filterRules(rules, f))
       IN  /\ lookupHit' = [lookupHit EXCEPT ![f] = hit]
           /\ lookupFile' = [lookupFile EXCEPT ![f] =
                                IF i = 0 THEN NoRow ELSE dbFile.review_files[i]]
           /\ IF hit
              THEN /\ pc' = [pc EXCEPT ![f] = "cached"]
                   /\ UNCHANGED llmCalls
              ELSE \* new CodeReviewer(...); reviewer.codeReviewFile(file, rules):
                   \* without a patch it returns NO_PATCH_FOUND, else it asks the LLM
                   /\ pc' = [pc EXCEPT ![f] = "review"]
                   /\ llmCalls' = [llmCalls EXCEPT ![f] = IF sha[f] = 0 THEN @ ELSE @ + 1]
    /\ dbData' = dbFile
    /\ save' = MarkStale(save)
    /\ UNCHANGED reviewVars
    /\ UNCHANGED turnVars
    /\ UNCHANGED fnVars
    /\ UNCHANGED <<files, rules, sha, runState, aborted, fileQueue, processingPromises,
                   awaited, returnViolations, returned, events, onCompleteCalls,
                   onAbortCalls, analysis, mtime, dbFile, runs, visitLog>>

\* await getViolationsForFile(...) resumes: skipped/cached, the entry, the end
GetCached(f) ==
    /\ pc[f] = "cached"
    /\ EndTask(f, <<"skipped:cached">>,
               {[fileName |-> f,
                 violations |-> MapCached(filterRules(rules, f),
                                          getViolationsForFile(dbFile, f, sha[f]))]})
    /\ dbData' = dbFile
    /\ save' = MarkStale(save)
    /\ UNCHANGED reviewVars
    /\ UNCHANGED turnVars
    /\ UNCHANGED fnVars
    /\ UNCHANGED <<files, rules, sha, runState, aborted, awaited, returned,
                   onCompleteCalls, llmCalls, lookupHit, lookupFile, analysis, mtime, dbFile,
                   runs, visitLog>>

\* await reviewer.codeReviewFile(...) resumes with an analysis: completed,
\* then saveFileReview up to its await db.read()
ReviewReturns(f, vs, visited) ==
    /\ pc[f] = "review"
    /\ IF sha[f] = 0 THEN vs = <<>> /\ visited = <<>>
       ELSE vs \in ReviewViolations(filterRules(rules, f)) /\ visited \in VisitChoices
    /\ analysis' = [analysis EXCEPT ![f] = [violations |-> vs, visitedFiles |-> visited]]
    /\ events' = [events EXCEPT ![f] = @ \o <<"completed">>]
    /\ pc' = [pc EXCEPT ![f] = "save"]
    /\ UNCHANGED reviewVars
    /\ UNCHANGED turnVars
    /\ UNCHANGED fnVars
    /\ UNCHANGED <<files, rules, sha, runState, aborted, fileQueue, processingPromises,
                   awaited, returnViolations, returned, onCompleteCalls, onAbortCalls,
                   llmCalls, lookupHit, lookupFile, cacheVars>>

\* await reviewer.codeReviewFile(...) throws: the catch block, the end
ReviewThrows(f) ==
    /\ pc[f] = "review"
    /\ sha[f] # 0
    /\ EndTask(f, CatchEvents, {})
    /\ UNCHANGED reviewVars
    /\ UNCHANGED turnVars
    /\ UNCHANGED fnVars
    /\ UNCHANGED <<files, rules, sha, runState, aborted, awaited, returned,
                   onCompleteCalls, llmCalls, lookupHit, lookupFile, analysis, cacheVars>>

HasReviewRow(db, id) == \E i \in 1..Len(db.review_files) : db.review_files[i].id = id

\* history: the files review FileId(f) visited, with their tokens then
VisitedTokens(f) ==
    [review_file_id |-> FileId(f),
     tokens |-> {getFileSha(w) : w \in RangeOf(analysis[f].visitedFiles)}]

\* saveFileReview goes on over document `data`; idx is the first visited file
\* without a row.  It suspends in getFileSha for that file, or, the loop over,
\* calls db.write(), which writes db.data as it is now (ok) or fails
SaveGoesOn(f, data, idx, ok) ==
        /\ dbData' = data
        /\ IF idx <= Len(analysis[f].visitedFiles)
           THEN /\ pc' = [pc EXCEPT ![f] = "visit"]
                /\ UNCHANGED <<dbFile, visitLog>>
           ELSE /\ pc' = [pc EXCEPT ![f] = IF ok THEN "write" ELSE "writeFailed"]
                /\ dbFile' = IF ok THEN data ELSE dbFile
                /\ visitLog' = IF ok /\ HasReviewRow(data, FileId(f))
                                THEN visitLog \cup {VisitedTokens(f)} ELSE visitLog
        /\ UNCHANGED reviewVars
    /\ UNCHANGED turnVars
    /\ UNCHANGED fnVars
        /\ UNCHANGED <<files, rules, sha, runState, aborted, fileQueue,
                       processingPromises, awaited, returnViolations, returned, events,
                       onCompleteCalls, onAbortCalls, llmCalls, lookupHit, lookupFile, analysis,
                       mtime, runs>>

\* saveFileReview: await db.read() resumes
SaveRead(f, ok) ==
    /\ pc[f] = "save"
    /\ LET data == SavePushRows(dbFile, f, analysis[f].violations, filterRules(rules, f))
           idx == NextVisit(data, analysis[f].visitedFiles, 1)
       IN  /\ save' = [MarkStale(save) EXCEPT ![f] = [idx |-> idx, stale |-> FALSE]]
           /\ SaveGoesOn(f, data, idx, ok)

\* saveFileReview: await getFileSha(root, visitedFile) resumes and the row is
\* pushed onto the array taken before the await
SaveVisit(f, ok) ==
    /\ pc[f] = "visit"
    /\ LET w == analysis[f].visitedFiles[save[f].idx]
           row == [review_file_id |-> FileId(f), fileName |-> w, fileSha |-> getFileSha(w)]
           data == IF save[f].stale THEN dbData
                   ELSE [dbData EXCEPT !.visited_files = Append(@, row)]
           idx == NextVisit(data, analysis[f].visitedFiles, save[f].idx + 1)
       IN  /\ save' = [save EXCEPT ![f] = [idx |-> idx, stale |-> FALSE]]
           /\ SaveGoesOn(f, data, idx, ok)

\* await saveFileReview(...) resumes: the entry, the end
SaveWritten(f) ==
    /\ pc[f] = "write"
    /\ EndTask(f, <<>>, {[fileName |-> f, violations |-> analysis[f].violations]})
    /\ UNCHANGED reviewVars
    /\ UNCHANGED turnVars
    /\ UNCHANGED fnVars
    /\ UNCHANGED <<files, rules, sha, runState, aborted, awaited, returned,
                   onCompleteCalls, llmCalls, lookupHit, lookupFile, analysis, cacheVars>>

\* await saveFileReview(...) throws: the catch block, the end
SaveThrows(f) ==
    /\ pc[f] = "writeFailed"
    /\ EndTask(f, CatchEvents, {})
    /\ UNCHANGED reviewVars
    /\ UNCHANGED turnVars
    /\ UNCHANGED fnVars
    /\ UNCHANGED <<files, rules, sha, runState, aborted, awaited, returned,
                   onCompleteCalls, llmCalls, lookupHit, lookupFile, analysis, cacheVars>>

NoSave == [idx |-> 0, stale |-> FALSE]
NoAnalysis == [violations |-> <<>>, visitedFiles |-> <<>>]

\* the process ends; the next run is a new process with the same cache file
Exit ==
    /\ runState \in {"returned", "aborted"}
    /\ \A f \in RangeOf(files) : pc[f] \in {"queued", "done"}
    /\ runState' = "idle"
    /\ aborted' = FALSE
    /\ fileQueue' = <<>>
    /\ processingPromises' = {}
    /\ awaited' = {}
    /\ pc' = [f \in DOMAIN pc |-> "queued"]
    /\ returnViolations' = {}
    /\ returned' = {}
    /\ events' = [f \in DOMAIN events |-> <<>>]
    /\ onCompleteCalls' = 0
    /\ onAbortCalls' = 0
    /\ llmCalls' = [f \in DOMAIN llmCalls |-> 0]
    /\ lookupHit' = [f \in DOMAIN lookupHit |-> FALSE]
    /\ lookupFile' = [f \in DOMAIN lookupFile |-> NoRow]
    /\ analysis' = [f \in DOMAIN analysis |-> NoAnalysis]
    /\ dbData' = EmptyDb
    /\ save' = [f \in DOMAIN save |-> NoSave]
    /\ UNCHANGED reviewVars
    /\ UNCHANGED turnVars
    /\ UNCHANGED fnVars
    /\ UNCHANGED <<files, rules, sha, mtime, dbFile, runs, visitLog>>

\* between two runs a workspace file is modified
Touch(w) ==
    /\ runState = "idle"
    /\ runs > 0
    /\ mtime[w] < MaxTouch + 1
    /\ mtime' = [mtime EXCEPT ![w] = @ + 1]
    /\ UNCHANGED reviewVars
    /\ UNCHANGED turnVars
    /\ UNCHANGED fnVars
    /\ UNCHANGED <<orchVars, dbFile, dbData, save, runs, visitLog>>

\* between two runs the rules on disk change
ChangeRules(rs) ==
    /\ runState = "idle"
    /\ runs > 0
    /\ rs # rules
    /\ rules' = rs
    /\ UNCHANGED reviewVars
    /\ UNCHANGED turnVars
    /\ UNCHANGED fnVars
    /\ UNCHANGED <<files, sha, runState, aborted, fileQueue, processingPromises,
                   awaited, pc, returnViolations, returned, events, onCompleteCalls,
                   onAbortCalls, llmCalls, lookupHit, lookupFile, analysis, cacheVars>>

InitCache ==
    /\ files = [i \in CacheFiles |-> i]
    /\ rules \in RuleSeqs
    /\ sha = [f \in CacheFiles |-> 1]
    /\ runState = "idle"
    /\ aborted = FALSE
    /\ fileQueue = <<>>
    /\ processingPromises = {}
    /\ awaited = {}
    /\ pc = [f \in CacheFiles |-> "queued"]
    /\ returnViolations = {}
    /\ returned = {}
    /\ events = [f \in CacheFiles |-> <<>>]
    /\ onCompleteCalls = 0
    /\ onAbortCalls = 0
    /\ llmCalls = [f \in CacheFiles |-> 0]
    /\ lookupHit = [f \in CacheFiles |-> FALSE]
    /\ lookupFile = [f \in CacheFiles |-> NoRow]
    /\ analysis = [f \in CacheFiles |-> NoAnalysis]
    /\ mtime = [w \in 1..VisitedOnly |-> 1]
    /\ dbFile = EmptyDb
    /\ dbData = EmptyDb
    /\ save = [f \in CacheFiles |-> NoSave]
    /\ runs = 0
    /\ visitLog = {}
    /\ NoReview
    /\ NoTurns
    /\ NoCall

NextCache ==
    \/ StartRun(FALSE)
    \/ AllSettled
    \/ Exit
    \/ Touch(VisitedOnly)
    \/ \E rs \in RuleSeqs : ChangeRules(rs)
    \/ \E f \in CacheFiles :
          \/ Lookup(f)
          \/ GetCached(f)
          \/ \E vs \in ReviewViolations(<<R1, R2>>), visited \in VisitChoices :
                ReviewReturns(f, vs, visited)
          \/ ReviewThrows(f)
          \/ \E ok \in BOOLEAN : SaveRead(f, ok) \/ SaveVisit(f, ok)
          \/ SaveWritten(f)
          \/ SaveThrows(f)

SpecCache == InitCache /\ [][NextCache]_vars

----------------------------------------------------------------------------
(* Properties of the orchestrator and the cache *)

\* file tasks that have been started and have not finished
InFlight == {f \in DOMAIN pc : pc[f] \notin {"queued", "done"}}

LastEvent(f) == IF events[f] = <<>> THEN "none" ELSE events[f][Len(events[f])]

\* C2: when runCodeReview signals the end and returns, every file task that
\* was started has finished, and the returned list holds an entry for every
\* file that was reviewed or served from the cache.
C2_ReturnsAfterAllTasks ==
    runState = "returned" =>
        /\ InFlight = {}
        /\ \A f \in DOMAIN pc :
              LastEvent(f) \in {"completed", "skipped:cached"} =>
                  \E e \in returned : e.fileName = f

\* C3: at every moment at most MAX_CONCURRENT (10) file tasks have been
\* started and have not finished.
C3_AtMostTenInFlight == Cardinality(InFlight) <= MAX_CONCURRENT

\* ten tasks are in flight and the last file was started by a finished task
C3_Witness ==
    /\ Cardinality(InFlight) = MAX_CONCURRENT
    /\ pc[NumPoolFiles] = "lookup"
    /\ \E f \in DOMAIN pc : pc[f] = "done"

\* C4: a file whose cache lookup was a hit issues no LLM completion request
\* during the run.
C4_HitIssuesNoLlmRequest == \A f \in DOMAIN pc : lookupHit[f] => llmCalls[f] = 0

\* a file was served from the cache and its task has ended
C4_Witness ==
    \E f \in DOMAIN pc :
        /\ lookupHit[f]
        /\ pc[f] = "done"
        /\ \E e \in returnViolations : e.fileName = f

\* C5: a lookup is a hit only if every file visited during the matched
\* review still has the freshness token it had at that review.
C5_HitOnlyIfVisitedFresh ==
    \A f \in DOMAIN pc :
        lookupHit[f] =>
            \A l \in visitLog :
                l.review_file_id = lookupFile[f].id =>
                    \A t \in l.tokens : getFileSha(t[1]) = t

\* C6: a lookup is a hit only if a stored review of the same file and patch
\* hash has a rule-id set equal to the current one.
C6_HitOnlyIfSameRuleSet ==
    \A f \in DOMAIN pc :
        lookupHit[f] =>
            \E i \in 1..Len(dbFile.review_files) :
                /\ dbFile.review_files[i].fileName = f
                /\ dbFile.review_files[i].fileSha = sha[f]
                /\ dbFile.review_files[i].rule_ids = RuleIds(filterRules(rules, f))

\* the review_files rows of file f, and whether the latest one was made with
\* the current patch hash and rule set and no file it visited has changed
ReviewRowsOf(f) ==
    {i \in 1..Len(dbFile.review_files) : dbFile.review_files[i].fileName = f}
LatestReviewFresh(f) ==
    /\ ReviewRowsOf(f) # {}
    /\ LET i == CHOOSE k \in ReviewRowsOf(f) : \A j \in ReviewRowsOf(f) : j <= k
           row == dbFile.review_files[i]
       IN  /\ row.fileSha = sha[f]
           /\ row.rule_ids = RuleIds(filterRules(rules, f))
           /\ \E l \in visitLog :
                 /\ l.review_file_id = row.id
                 /\ \A t \in l.tokens : getFileSha(t[1]) = t

\* C7: once a review of f is saved, a later lookup with the same patch hash
\* and rule set is a hit while no file that review visited has changed, even
\* with older stale reviews of f in the cache.
C7_HitAfterLatestReview ==
    \A f \in DOMAIN pc :
        (pc[f] \in {"review", "cached"} /\ LatestReviewFresh(f)) => lookupHit[f]

RuleById(id) == CHOOSE r \in {R1, R2} : r.id = id

\* the violations the matched review of f recorded, as a hit should return them
RECURSIVE AsCached(_)
AsCached(rows) ==
    IF rows = <<>> THEN <<>>
    ELSE <<[description |-> Head(rows).description,
            line |-> [start |-> Head(rows).lineNumberStart,
                      end |-> Head(rows).lineNumberEnd,
                      side |-> Head(rows).lineNumberSide],
            rule |-> RuleById(Head(rows).rule_id),
            isCached |-> TRUE]>> \o AsCached(Tail(rows))
RecordedBy(f, row) ==
    SelectSeq(dbFile.review_violations,
              LAMBDA v : v.fileName = f /\ v.fileSha = row.fileSha /\ v.id[4] = row.id[3])

\* C8: on a hit the violations returned are exactly those the matched review
\* recorded, each with its description, line reference and originating rule,
\* marked isCached.
C8_CachedViolationsAreTheMatchedReviews ==
    \A e \in returnViolations :
        LastEvent(e.fileName) = "skipped:cached" =>
            e.violations = AsCached(RecordedBy(e.fileName, lookupFile[e.fileName]))

\* C9: once every saveFileReview of the run has returned, the cache file
\* holds exactly one review_files row, with its review_violations rows and a
\* visited_files row for each visited file, for every completed review.
C9_ConcurrentSavesKeepEveryRow ==
    (runState \in {"running", "returned"} /\ InFlight = {}) =>
        \A f \in DOMAIN pc :
            (pc[f] = "done" /\ LastEvent(f) = "completed") =>
                /\ Cardinality({i \in ReviewRowsOf(f) :
                                   dbFile.review_files[i].id = FileId(f)}) = 1
                /\ Len(SelectSeq(dbFile.review_violations,
                                 LAMBDA v : v.fileName = f /\ v.id[4] = runs))
                      = Len(analysis[f].violations)
                /\ \A w \in RangeOf(analysis[f].visitedFiles) : HasVisitedRow(dbFile, w)

\* C10: a review whose cache write failed stays reported as completed, is
\* not reported as skipped with reason error, and its violations are returned.
C10_SaveFailureKeepsTheReview ==
    \A f \in DOMAIN pc :
        (pc[f] = "done" /\ \E i \in 1..Len(events[f]) : events[f][i] = "completed") =>
            /\ LastEvent(f) = "completed"
            /\ \E e \in returnViolations :
                  e.fileName = f /\ e.violations = analysis[f].violations

\* C11: when the task of one file throws and the review is not cancelled,
\* the file is reported skipped with reason error, the run goes on, and every
\* file of the input is started and reaches its end unless the review is
\* cancelled.
C11_ErrorSkipsOnlyThatFile ==
    /\ [][\A f \in DOMAIN pc :
             (Settle(f, "error") /\ ~aborted) =>
                 /\ LastEvent(f)' = "skipped:error"
                 /\ runState' = runState
                 /\ \A g \in DOMAIN pc : g # f /\ pc[g] # "queued" => pc'[g] = pc[g]]_vars
    /\ (runState = "running") ~> (aborted \/ \A f \in DOMAIN pc : pc[f] = "done")

\* a task threw, its file is skipped with reason error, and all files are done
C11_Witness ==
    /\ ~aborted
    /\ runState = "returned"
    /\ \E f \in DOMAIN pc : LastEvent(f) = "skipped:error" /\ Len(events[f]) = 3
    /\ \A f \in DOMAIN pc : pc[f] = "done"

\* C12: the events of a file are one or more processing events followed by
\* exactly one terminal event (completed or skipped), and nothing after it.
C12_OneTerminalEvent ==
    \A f \in DOMAIN pc :
        /\ \A i \in 1..(Len(events[f]) - 1) : events[f][i] = "processing"
        /\ (pc[f] = "done" /\ ~aborted) =>
              /\ Len(events[f]) >= 2
              /\ LastEvent(f) # "processing"

\* C13: once the cancellation signal is set, a file still in the queue is
\* not started: it gets no processing event, no cache lookup, no LLM request.
C13_NoStartAfterAbort ==
    [][\A f \in DOMAIN pc :
          (aborted /\ pc[f] = "queued") =>
              /\ pc'[f] = "queued"
              /\ events'[f] = events[f]
              /\ llmCalls'[f] = llmCalls[f]]_vars

\* the review was cancelled with a file still queued, and a task ended after that
C13_Witness ==
    /\ aborted
    /\ runState = "returned"
    /\ pc[NumPoolFiles] = "queued"
    /\ events[NumPoolFiles] = <<>>
    /\ \A f \in DOMAIN pc : f # NumPoolFiles => pc[f] = "done"

----------------------------------------------------------------------------
(* JavaScript values, as the arguments of a tool call hold them after JSON.parse *)

\* largest line number of the patches and the complaints
MaxLine == 3

\* a number is held doubled (h = 2 * value) so that 2.5 is a value; a string
\* is a sequence of characters
JsNumber(h) == [t |-> "number", nan |-> FALSE, h |-> h, s |-> <<>>]
NaN == [t |-> "number", nan |-> TRUE, h |-> 0, s |-> <<>>]
JsString(s) == [t |-> "string", nan |-> FALSE, h |-> 0, s |-> s]
Undefined == [t |-> "undefined", nan |-> FALSE, h |-> 0, s |-> <<>>]

Digits == <<"0", "1", "2", "3", "4", "5", "6", "7", "8", "9">>
IsDigit(c) == \E d \in 1..10 : Digits[d] = c
DigitValue(c) == (CHOOSE d \in 1..10 : Digits[d] = c) - 1

\* UTF-16 code units of the characters used
CharCode(c) ==
    CASE c = "." -> 46
      [] IsDigit(c) -> 48 + DigitValue(c)
      [] c = "L" -> 76
      [] c = "N" -> 78
      [] c = "R" -> 82
      [] c = "a" -> 97
      [] OTHER -> 120

RECURSIVE DecimalOf(_)
DecimalOf(n) ==
    IF n < 10 THEN <<Digits[n + 1]>>
    ELSE DecimalOf(n \div 10) \o <<Digits[(n % 10) + 1]>>

RECURSIVE DecimalValue(_)
DecimalValue(ds) ==
    IF ds = <<>> THEN 0
    ELSE 10 * DecimalValue(SubSeq(ds, 1, Len(ds) - 1)) + DigitValue(ds[Len(ds)])

\* value?.toString()
toString(v) ==
    CASE v.t = "undefined" -> Undefined
      [] v.t = "string" -> v
      [] v.nan -> JsString(<<"N", "a", "N">>)
      [] OTHER -> JsString(DecimalOf(v.h \div 2)
                           \o (IF v.h % 2 = 1 THEN <<".", "5">> ELSE <<>>))

\* String.prototype.replace(c, ""): the first occurrence of c is removed
RECURSIVE RemoveFirst(_, _)
RemoveFirst(s, c) ==
    IF s = <<>> THEN <<>>
    ELSE IF Head(s) = c THEN Tail(s)
    ELSE <<Head(s)>> \o RemoveFirst(Tail(s), c)

replace(v, c) == IF v.t = "string" THEN JsString(RemoveFirst(v.s, c)) ELSE v

RECURSIVE LeadingDigits(_)
LeadingDigits(s) ==
    IF s = <<>> \/ ~IsDigit(Head(s)) THEN <<>>
    ELSE <<Head(s)>> \o LeadingDigits(Tail(s))

\* parseInt(string, 10) of a string without sign or leading blanks
parseInt(v) ==
    IF LeadingDigits(v.s) = <<>> THEN NaN
    ELSE JsNumber(2 * DecimalValue(LeadingDigits(v.s)))

\* ToNumber, the conversion the relational operators and ++ apply
ToNumber(v) ==
    CASE v.t = "number" -> v
      [] v.t = "undefined" -> NaN
      [] OTHER ->
           LET ds == LeadingDigits(v.s)
               rest == SubSeq(v.s, Len(ds) + 1, Len(v.s))
           IN  IF v.s = <<>> THEN JsNumber(0)
               ELSE IF ds = <<>> THEN NaN
               ELSE IF rest = <<>> THEN JsNumber(2 * DecimalValue(ds))
               ELSE IF rest = <<".", "5">> THEN JsNumber(2 * DecimalValue(ds) + 1)
               ELSE NaN

\* s <= t of two strings: by code units
RECURSIVE StringLessEq(_, _)
StringLessEq(s, t) ==
    IF s = <<>> THEN TRUE
    ELSE IF t = <<>> THEN FALSE
    ELSE IF Head(s) = Head(t) THEN StringLessEq(Tail(s), Tail(t))
    ELSE CharCode(Head(s)) < CharCode(Head(t))

\* a <= b
LessEq(a, b) ==
    IF a.t = "string" /\ b.t = "string" THEN StringLessEq(a.s, b.s)
    ELSE LET x == ToNumber(a)
             y == ToNumber(b)
         IN  ~x.nan /\ ~y.nan /\ x.h <= y.h

\* line++
Increment(v) == LET x == ToNumber(v) IN IF x.nan THEN NaN ELSE JsNumber(x.h + 2)

\* Set<number>.has(v): SameValueZero, so no string is a member
SetHas(S, v) == v.t = "number" /\ ~v.nan /\ v.h % 2 = 0 /\ (v.h \div 2) \in S

\* !v
Falsy(v) ==
    \/ v.t = "undefined"
    \/ v.t = "string" /\ v.s = <<>>
    \/ v.t = "number" /\ (v.nan \/ v.h = 0)

----------------------------------------------------------------------------
(* patchParser.ts *)

\* a patch is a sequence of lines: a hunk header "@@ -os,oc +ns,nc @@", or a
\* line with the prefix "+", "-" or " "
HunkHeader(os, oc, ns, nc) == [k |-> "@@", os |-> os, oc |-> oc, ns |-> ns, nc |-> nc]
PatchLine(k) == [k |-> k, os |-> 0, oc |-> 0, ns |-> 0, nc |-> 0]
\* a context line whose content reads "@@ -os,oc +ns,nc @@" (the file under
\* review holds a diff): the line is " @@ -os,oc +ns,nc @@"
ContextLineOfDiff(os, oc, ns, nc) == [k |-> " @@", os |-> os, oc |-> oc, ns |-> ns, nc |-> nc]

Null == -1

RECURSIVE ParseFrom(_, _, _, _)
ParseFrom(lines, inHunk, currentOldLine, currentNewLine) ==
    IF lines = <<>> THEN <<>>
    ELSE LET line == Head(lines)
             rest == Tail(lines)
         IN  CASE line.k = "@@" -> ParseFrom(rest, TRUE, line.os, line.ns)
               [] line.k # "@@" /\ ~inHunk ->
                    ParseFrom(rest, inHunk, currentOldLine, currentNewLine)
               [] line.k = "+" /\ inHunk ->
                    <<[old |-> Null, new |-> currentNewLine]>>
                    \o ParseFrom(rest, inHunk, currentOldLine, currentNewLine + 1)
               [] line.k = "-" /\ inHunk ->
                    <<[old |-> currentOldLine, new |-> Null]>>
                    \o ParseFrom(rest, inHunk, currentOldLine + 1, currentNewLine)
               [] OTHER ->
                    <<[old |-> currentOldLine, new |-> currentNewLine]>>
                    \o ParseFrom(rest, inHunk, currentOldLine + 1, currentNewLine + 1)

parsePatch(p) == ParseFrom(p, FALSE, 0, 0)

\* [addedLines, removedLines]
parseLines(p) ==
    LET parsed == parsePatch(p)
        idx == 1..Len(parsed)
    IN  [added |-> {parsed[i].new : i \in {j \in idx : parsed[j].old = Null}},
         removed |-> {parsed[i].old : i \in {j \in idx : parsed[j].new = Null}}]

\* [oldRanges, newRanges], one [start, end] pair per line for which
\* line.trim().startsWith("@@")
getPatchLineRanges(p) ==
    LET hs == SelectSeq(p, LAMBDA l : l.k \in {"@@", " @@"})
    IN  [old |-> [i \in 1..Len(hs) |-> <<hs[i].os, hs[i].os + hs[i].oc - 1>>],
         new |-> [i \in 1..Len(hs) |-> <<hs[i].ns, hs[i].ns + hs[i].nc - 1>>]]

\* for (let line = start; line <= end; line++) if (lines.has(line)) return true
RECURSIVE AnyLineChanged(_, _, _)
AnyLineChanged(line, end, changed) ==
    IF ~LessEq(line, end) THEN FALSE
    ELSE IF SetHas(changed, line) THEN TRUE
    ELSE AnyLineChanged(Increment(line), end, changed)

isLineReferenceValidForPatch(lineReference, p) ==
    LET r == getPatchLineRanges(p)
        ranges == IF lineReference.side = "left" THEN r.old ELSE r.new
        changed == IF lineReference.side = "left" THEN parseLines(p).removed
                   ELSE parseLines(p).added
    IN  /\ Len(r.old) > 0
        /\ Len(r.new) > 0
        /\ \E i \in 1..Len(ranges) :
              /\ LessEq(JsNumber(2 * ranges[i][1]), lineReference.start)
              /\ LessEq(lineReference.end, JsNumber(2 * ranges[i][2]))
        /\ AnyLineChanged(lineReference.start, lineReference.end, changed)

----------------------------------------------------------------------------
(* tools.ts: complaint, and the review loop of CodeReviewer *)

\* responses with tool calls one review may get
MaxRounds == 2
\* tool calls of one response
MaxToolCalls == 1

\* the file under review, and another file of the workspace
ReviewFile == 1
OtherFile == 2

\* the tool returns the parameters it was given, or an error
complaint(parameters, file, rs) ==
    LET lineStart == replace(replace(toString(parameters.line_start), "L"), "R")
        lineEnd == replace(replace(toString(parameters.line_end), "L"), "R")
    IN  IF parameters.file_path # file.filename THEN [error |-> TRUE]
        ELSE IF ~\E i \in 1..Len(rs) : rs[i].id = parameters.rule_id THEN [error |-> TRUE]
        ELSE IF Falsy(lineStart) \/ Falsy(lineEnd) THEN [error |-> TRUE]
        ELSE IF parseInt(lineStart).nan \/ parseInt(lineEnd).nan THEN [error |-> TRUE]
        ELSE IF ~isLineReferenceValidForPatch(
                    [start |-> parseInt(lineStart), end |-> parseInt(lineEnd),
                     side |-> parameters.line_side], file.patch)
             THEN [error |-> TRUE]
        ELSE [error |-> FALSE, value |-> parameters]

\* executeCodeReviewTool: the result of one tool call; ok is whether a
\* read_file found its file
executeCodeReviewTool(file, rs, toolCall) ==
    CASE toolCall.name = "complaint" -> complaint(toolCall.args, file, rs)
      [] toolCall.name = "read_file" ->
           IF toolCall.ok THEN [error |-> FALSE, value |-> toolCall.args]
           ELSE [error |-> TRUE]
      [] OTHER -> [error |-> TRUE]

\* the Violation built from an accepted complaint
ViolationOf(complaintParams, rs) ==
    [description |-> complaintParams.description,
     line |-> [start |-> complaintParams.line_start,
               end |-> complaintParams.line_end,
               side |-> complaintParams.line_side],
     rule |-> rs[CHOOSE i \in 1..Len(rs) :
                    /\ rs[i].id = complaintParams.rule_id
                    /\ \A j \in 1..(i - 1) : rs[j].id # complaintParams.rule_id]]

\* for (const { toolCall, toolResult, args } of toolCallResults): what the
\* results, taken in order, add to visitedFiles and to violationsToValidate
RECURSIVE CollectResults(_, _, _, _)
CollectResults(file, rs, toolCalls, acc) ==
    IF toolCalls = <<>> THEN acc
    ELSE LET toolCall == Head(toolCalls)
             toolResult == executeCodeReviewTool(file, rs, toolCall)
             read == toolCall.name = "read_file" /\ ~toolResult.error
             complained == toolCall.name = "complaint" /\ ~toolResult.error
         IN  CollectResults(file, rs, Tail(toolCalls),
                 [visited |-> IF read THEN Append(acc.visited, toolCall.args.target_file)
                              ELSE acc.visited,
                  toValidate |-> IF complained
                                 THEN Append(acc.toValidate, ViolationOf(toolResult.value, rs))
                                 ELSE acc.toValidate])

\* the line values a complaint call may carry
LineArgs ==
    {JsNumber(2 * n) : n \in 1..MaxLine}
    \cup {JsString(<<Digits[n + 1]>>) : n \in 1..MaxLine}
    \cup {JsNumber(5), JsString(<<"L", "2">>), JsString(<<"R", "2">>),
          JsString(<<"2", "x">>), JsString(<<"x">>), Undefined}

ComplaintArgs(fp, rid, a, b, sd) ==
    [file_path |-> fp, rule_id |-> rid, line_start |-> a, line_end |-> b,
     line_side |-> sd, description |-> "d1"]

ToolCall(name, args, ok) == [name |-> name, args |-> args, ok |-> ok]

\* the tool calls the LLM may make
ToolCalls ==
    {ToolCall("complaint", ComplaintArgs(ReviewFile, "r1", a, b, sd), TRUE) :
        a \in LineArgs, b \in LineArgs, sd \in {"left", "right"}}
    \cup {ToolCall("complaint", ComplaintArgs(fp, rid, JsNumber(4), JsNumber(4), "right"), TRUE) :
        fp \in {ReviewFile, OtherFile}, rid \in {"r1", "unknown"}}
    \cup {ToolCall("read_file", [target_file |-> w], ok) :
        w \in {ReviewFile, OtherFile}, ok \in BOOLEAN}
    \cup {ToolCall("grep_search", [query |-> "q"], TRUE)}

RECURSIVE SeqsUpTo(_, _)
SeqsUpTo(S, n) ==
    IF n = 0 THEN {<<>>}
    ELSE SeqsUpTo(S, n - 1)
         \cup {Append(q, x) : q \in {r \in SeqsUpTo(S, n - 1) : Len(r) = n - 1}, x \in S}

\* the completion is a response with tool calls: they are executed, their
\* results are collected in order, and the accepted complaints go to the validator
RespondTools(toolCalls) ==
    /\ reviewPc = "llm"
    /\ round < MaxRounds
    /\ toolCalls # <<>>
    /\ LET got == CollectResults([filename |-> ReviewFile, patch |-> patch],
                                 filterRules(rules, ReviewFile), toolCalls,
                                 [visited |-> visitedFiles, toValidate |-> <<>>])
       IN  /\ visitedFiles' = got.visited
           /\ violationsToValidate' = got.toValidate
           /\ reviewPc' = IF got.toValidate = <<>> THEN "llm" ELSE "validate"
    /\ round' = round + 1
    /\ UNCHANGED <<patch, violations, rejectedViolations, orchVars, cacheVars, turnVars, fnVars>>

RECURSIVE KeepByVerdict(_, _, _)
KeepByVerdict(vs, verdict, keep) ==
    IF vs = <<>> THEN <<>>
    ELSE (IF verdict[1] = keep THEN <<Head(vs)>> ELSE <<>>)
         \o KeepByVerdict(Tail(vs), Tail(verdict), keep)

\* the validator has answered for every complaint of the response
Validated(verdict) ==
    /\ reviewPc = "validate"
    /\ Len(verdict) = Len(violationsToValidate)
    /\ violations' = violations \o KeepByVerdict(violationsToValidate, verdict, TRUE)
    /\ rejectedViolations' =
           rejectedViolations \o KeepByVerdict(violationsToValidate, verdict, FALSE)
    /\ violationsToValidate' = <<>>
    /\ reviewPc' = "llm"
    /\ UNCHANGED <<patch, round, visitedFiles, orchVars, cacheVars, turnVars, fnVars>>

\* a completion request fails for good, or the validator's answer is no tool call
ReviewFails ==
    /\ reviewPc \in {"llm", "validate"}
    /\ reviewPc' = "failed"
    /\ UNCHANGED <<patch, round, violations, violationsToValidate, rejectedViolations,
                   visitedFiles, orchVars, cacheVars, turnVars, fnVars>>

\* the completion is a message: visitedFiles without the file itself, sorted
RespondMessage ==
    /\ reviewPc = "llm"
    /\ visitedFiles' = SortSeq(SelectSeq(visitedFiles, LAMBDA w : w # ReviewFile),
                               LAMBDA a, b : a < b)
    /\ reviewPc' = "done"
    /\ UNCHANGED <<patch, round, violations, violationsToValidate, rejectedViolations,
                   orchVars, cacheVars, turnVars, fnVars>>

\* one added line between two context lines
PatchAdded == <<HunkHeader(1, 2, 1, 3), PatchLine(" "), PatchLine("+"), PatchLine(" ")>>
\* a changed line: one removed, one added
PatchChanged ==
    <<HunkHeader(1, 3, 1, 3), PatchLine(" "), PatchLine("-"), PatchLine("+"), PatchLine(" ")>>
\* the lines of a deleted file, without a hunk header
PatchDeleted == <<PatchLine("-"), PatchLine("-")>>
\* the patch of a file that holds a diff: its last context line reads as a header
PatchOfDiff ==
    <<HunkHeader(1, 2, 1, 3), PatchLine(" "), PatchLine("+"), ContextLineOfDiff(1, 4, 1, 4)>>
Patches == {PatchAdded, PatchChanged, PatchDeleted, PatchOfDiff}

InitReview ==
    /\ files = <<ReviewFile>>
    /\ rules = <<R1>>
    /\ sha = [f \in {ReviewFile} |-> 1]
    /\ runState = "running"
    /\ aborted = FALSE
    /\ fileQueue = <<>>
    /\ processingPromises = {ReviewFile}
    /\ awaited = {ReviewFile}
    /\ pc = [f \in {ReviewFile} |-> "review"]
    /\ returnViolations = {}
    /\ returned = {}
    /\ events = [f \in {ReviewFile} |-> <<"processing", "processing">>]
    /\ onCompleteCalls = 0
    /\ onAbortCalls = 0
    /\ llmCalls = [f \in {ReviewFile} |-> 1]
    /\ lookupHit = [f \in {ReviewFile} |-> FALSE]
    /\ lookupFile = [f \in {ReviewFile} |-> NoRow]
    /\ analysis = [f \in {ReviewFile} |-> NoAnalysis]
    /\ mtime = [w \in {ReviewFile, OtherFile} |-> 1]
    /\ dbFile = EmptyDb
    /\ dbData = EmptyDb
    /\ save = [f \in {ReviewFile} |-> NoSave]
    /\ runs = 1
    /\ visitLog = {}
    /\ patch \in Patches
    /\ reviewPc = "llm"
    /\ round = 0
    /\ violations = <<>>
    /\ violationsToValidate = <<>>
    /\ rejectedViolations = <<>>
    /\ visitedFiles = <<>>
    /\ NoTurns
    /\ NoCall

NextReview ==
    \/ \E toolCalls \in SeqsUpTo(ToolCalls, MaxToolCalls) : RespondTools(toolCalls)
    \/ \E verdict \in SeqsUpTo(BOOLEAN, MaxToolCalls) : Validated(verdict)
    \/ ReviewFails
    \/ RespondMessage

SpecReview == InitReview /\ [][NextReview]_vars

\* C1: every violation a file review reports has a line reference, as it is
\* stored on the Violation, that isLineReferenceValidForPatch accepts for the
\* patch of the file, whatever values the complaint call carried.
C1_ReportedLineValidForPatch ==
    \A i \in 1..Len(violations) : isLineReferenceValidForPatch(violations[i].line, patch)

\* a complaint argument that is an integer, written as a number or as a
\* numeral with the L or R prefix of the numbered patch
IsIntegerArg(v) ==
    LET n == ToNumber(replace(replace(toString(v), "L"), "R"))
    IN  ~n.nan /\ n.h % 2 = 0

\* C17: a complaint call becomes a candidate violation only if its rule is
\* in the file's rule set, its line_start and line_end are present and are
\* integers, and its line reference is valid for the patch.
C17_ComplaintRejectsBadArguments ==
    \A i \in 1..Len(violationsToValidate) :
        LET v == violationsToValidate[i]
        IN  /\ \E j \in 1..Len(rules) : rules[j] = v.rule
            /\ IsIntegerArg(v.line.start)
            /\ IsIntegerArg(v.line.end)

\* the hunks of a patch: its header lines
HunksOf(p) == SelectSeq(p, LAMBDA l : l.k = "@@")

C20_VisitedFilesSortedAndDistinct ==
    reviewPc = "done" =>
        /\ \A i \in 1..Len(visitedFiles) : visitedFiles[i] # ReviewFile
        /\ \A i \in 1..Len(visitedFiles), j \in 1..Len(visitedFiles) :
              i < j => visitedFiles[i] < visitedFiles[j]

-----------------------------------------------------------------------------
(* The conversation of one file review and its completion attempts
   (CodeReviewer.runPromptAndGetAnalysis, callOpenAIWithRetry and
   CodeReviewerViolationValidator.validateViolation), one step per resumption *)

MaxTurnCalls == 2

\* retryOptions.retries of the reviewer and of the validator
retries == 3

\* retries are followed while the review has issued fewer attempts than this
MaxLlmCalls == 7

\* the tool calls an assistant turn may carry here
TurnToolCalls ==
    {ToolCall("complaint",
              ComplaintArgs(ReviewFile, rid, JsNumber(4), JsNumber(4), "right"), TRUE) :
        rid \in {"r1", "unknown"}}
    \cup {ToolCall("read_file", [target_file |-> OtherFile], ok) : ok \in BOOLEAN}

Reasonings == {"why1", "why2"}

AssistantTurn(tool_calls) ==
    [role |-> "assistant", tool_calls |-> tool_calls, tool_call_id |-> 0]
ToolTurn(id) == [role |-> "tool", tool_calls |-> <<>>, tool_call_id |-> id]

\* a validateViolation call that has issued its first completion attempt
ValidationStarted == [attempt |-> 1, st |-> "request", is_valid |-> FALSE, reasoning |-> ""]

\* await Promise.all(toolCallPromises) keeps the order of the promises it was
\* given, whatever the order they resolved in
toolCallResultsInFinishOrder(resp, order) == [k \in 1..Len(order) |-> resp[order[k]]]
toolCallResults(resp, order) == resp

\* for (const { violation, validationResult } of validationResults)
RECURSIVE ProcessValidationsAsValid(_, _, _)
ProcessValidationsAsValid(vs, results, acc) ==
    IF vs = <<>> THEN acc
    ELSE ProcessValidationsAsValid(Tail(vs), Tail(results),
             [acc EXCEPT !.violations =
                 Append(@, Head(vs) @@ [validationReasoning |-> Head(results).reasoning])])
RECURSIVE ProcessValidations(_, _, _)
ProcessValidations(vs, results, acc) ==
    IF vs = <<>> THEN acc
    ELSE ProcessValidations(Tail(vs), Tail(results),
             IF Head(results).is_valid
             THEN [acc EXCEPT !.violations =
                      Append(@, Head(vs) @@ [validationReasoning |-> Head(results).reasoning])]
             ELSE [acc EXCEPT !.rejected =
                      Append(@, [violation |-> Head(vs), reasoning |-> Head(results).reasoning])])

IssueAttempts(n) == [llmCalls EXCEPT ![ReviewFile] = @ + n]

\* the reviewer's completion resolves with tool calls: the assistant turn is
\* pushed and every tool execution is started
TurnRespondTools(calls) ==
    /\ reviewPc = "llm"
    /\ round < MaxRounds
    /\ calls # <<>>
    /\ response' = [i \in 1..Len(calls) |-> [id |-> round * MaxTurnCalls + i, function |-> calls[i]]]
    /\ messages' = Append(messages, AssistantTurn(response'))
    /\ finishOrder' = <<>>
    /\ attempt' = 0
    /\ round' = round + 1
    /\ reviewPc' = "tools"
    /\ UNCHANGED <<patch, violations, violationsToValidate, rejectedViolations, visitedFiles,
                   validation, verdictLog, orchVars, cacheVars>>
    /\ UNCHANGED fnVars

\* one tool execution resolves
ToolFinishes(i) ==
    /\ reviewPc = "tools"
    /\ i \in 1..Len(response)
    /\ i \notin RangeOf(finishOrder)
    /\ finishOrder' = Append(finishOrder, i)
    /\ UNCHANGED <<messages, response, attempt, validation, verdictLog, reviewVars,
                   orchVars, cacheVars>>
    /\ UNCHANGED fnVars

\* JSON.parse of a call's arguments throws: Promise.all rejects
ToolCallThrows ==
    /\ reviewPc = "tools"
    /\ Len(finishOrder) < Len(response)
    /\ reviewPc' = "failed"
    /\ UNCHANGED <<patch, round, violations, violationsToValidate, rejectedViolations,
                   visitedFiles, turnVars, orchVars, cacheVars>>
    /\ UNCHANGED fnVars

\* Promise.all(toolCallPromises) resolves: the tool turns are pushed, reads and
\* accepted complaints are collected, then the validations are started or,
\* without a complaint, the next completion is requested
ToolsAllDone ==
    /\ reviewPc = "tools"
    /\ Len(finishOrder) = Len(response)
    /\ LET results == toolCallResults(response, finishOrder)
           got == CollectResults([filename |-> ReviewFile, patch |-> patch],
                                 filterRules(rules, ReviewFile),
                                 [k \in 1..Len(results) |-> results[k].function],
                                 [visited |-> visitedFiles, toValidate |-> <<>>])
       IN  /\ messages' = messages \o [k \in 1..Len(results) |-> ToolTurn(results[k].id)]
           /\ visitedFiles' = got.visited
           /\ violationsToValidate' = got.toValidate
           /\ validation' = [i \in 1..Len(got.toValidate) |-> ValidationStarted]
           /\ IF got.toValidate = <<>>
              THEN reviewPc' = "llm" /\ attempt' = 1 /\ llmCalls' = IssueAttempts(1)
              ELSE /\ reviewPc' = "validate"
                   /\ attempt' = 0
                   /\ llmCalls' = IssueAttempts(Len(got.toValidate))
    /\ UNCHANGED <<patch, round, violations, rejectedViolations, response, finishOrder,
                   verdictLog, cacheVars>>
    /\ UNCHANGED <<files, rules, sha, runState, aborted, fileQueue, processingPromises,
                   awaited, pc, returnViolations, returned, events, onCompleteCalls,
                   onAbortCalls, lookupHit, lookupFile, analysis>>
    /\ UNCHANGED fnVars

\* the validator's completion resolves with a report_validation call
ValidatorResponds(i, is_valid, reasoning) ==
    /\ i \in 1..Len(validation)
    /\ validation[i].st = "request"
    /\ validation' = [validation EXCEPT ![i] = [@ EXCEPT !.st = "answered",
                                                        !.is_valid = is_valid,
                                                        !.reasoning = reasoning]]
    /\ verdictLog' = verdictLog (+) SetToBag({[violation |-> violationsToValidate[i],
                                                is_valid |-> is_valid,
                                                reasoning |-> reasoning]})
    /\ UNCHANGED <<messages, response, finishOrder, attempt, reviewVars, orchVars, cacheVars>>
    /\ UNCHANGED fnVars

\* the validator's completion resolves with a message: validateViolation throws
ValidatorNoToolResponse(i) ==
    /\ i \in 1..Len(validation)
    /\ validation[i].st = "request"
    /\ validation' = [validation EXCEPT ![i].st = "threw"]
    /\ reviewPc' = IF reviewPc = "validate" THEN "failed" ELSE reviewPc
    /\ UNCHANGED <<patch, round, violations, violationsToValidate, rejectedViolations,
                   visitedFiles, messages, response, finishOrder, attempt, verdictLog,
                   orchVars, cacheVars>>
    /\ UNCHANGED fnVars

\* an attempt of the validator's pRetry fails: another one is scheduled while
\* retries are left, else the error is thrown
ValidatorAttemptFails(i) ==
    /\ i \in 1..Len(validation)
    /\ validation[i].st = "request"
    /\ IF validation[i].attempt <= retries
       THEN /\ validation' = [validation EXCEPT ![i].st = "backoff"]
            /\ UNCHANGED reviewPc
       ELSE /\ validation' = [validation EXCEPT ![i].st = "threw"]
            /\ reviewPc' = IF reviewPc = "validate" THEN "failed" ELSE reviewPc
    /\ UNCHANGED <<patch, round, violations, violationsToValidate, rejectedViolations,
                   visitedFiles, messages, response, finishOrder, attempt, verdictLog,
                   orchVars, cacheVars>>
    /\ UNCHANGED fnVars

\* the validator's backoff timer fires: the next attempt is issued
ValidatorRetry(i) ==
    /\ i \in 1..Len(validation)
    /\ validation[i].st = "backoff"
    /\ llmCalls[ReviewFile] < MaxLlmCalls
    /\ validation' = [validation EXCEPT ![i] = [@ EXCEPT !.st = "request",
                                                        !.attempt = @ + 1]]
    /\ llmCalls' = IssueAttempts(1)
    /\ UNCHANGED <<messages, response, finishOrder, attempt, verdictLog, reviewVars,
                   cacheVars>>
    /\ UNCHANGED <<files, rules, sha, runState, aborted, fileQueue, processingPromises,
                   awaited, pc, returnViolations, returned, events, onCompleteCalls,
                   onAbortCalls, lookupHit, lookupFile, analysis>>
    /\ UNCHANGED fnVars

\* Promise.all(validationPromises) resolves: the verdicts are processed in
\* order and the next completion is requested
ValidationsAllDone ==
    /\ reviewPc = "validate"
    /\ \A i \in 1..Len(validation) : validation[i].st = "answered"
    /\ LET got == ProcessValidations(violationsToValidate, validation,
                                     [violations |-> violations,
                                      rejected |-> rejectedViolations])
       IN  /\ violations' = got.violations
           /\ rejectedViolations' = got.rejected
    /\ violationsToValidate' = <<>>
    /\ validation' = <<>>
    /\ reviewPc' = "llm"
    /\ attempt' = 1
    /\ llmCalls' = IssueAttempts(1)
    /\ UNCHANGED <<patch, round, visitedFiles, messages, response, finishOrder, verdictLog,
                   cacheVars>>
    /\ UNCHANGED <<files, rules, sha, runState, aborted, fileQueue, processingPromises,
                   awaited, pc, returnViolations, returned, events, onCompleteCalls,
                   onAbortCalls, lookupHit, lookupFile, analysis>>
    /\ UNCHANGED fnVars

\* an attempt of the reviewer's pRetry fails
AttemptFails ==
    /\ reviewPc = "llm"
    /\ reviewPc' = IF attempt <= retries THEN "backoff" ELSE "failed"
    /\ UNCHANGED <<patch, round, violations, violationsToValidate, rejectedViolations,
                   visitedFiles, turnVars, orchVars, cacheVars>>
    /\ UNCHANGED fnVars

\* the reviewer's backoff timer fires: the next attempt is issued
Retry ==
    /\ reviewPc = "backoff"
    /\ llmCalls[ReviewFile] < MaxLlmCalls
    /\ reviewPc' = "llm"
    /\ attempt' = attempt + 1
    /\ llmCalls' = IssueAttempts(1)
    /\ UNCHANGED <<patch, round, violations, violationsToValidate, rejectedViolations,
                   visitedFiles, messages, response, finishOrder, validation, verdictLog,
                   cacheVars>>
    /\ UNCHANGED <<files, rules, sha, runState, aborted, fileQueue, processingPromises,
                   awaited, pc, returnViolations, returned, events, onCompleteCalls,
                   onAbortCalls, lookupHit, lookupFile, analysis>>
    /\ UNCHANGED fnVars

\* the reviewer's completion resolves with a message: the analysis is returned
TurnRespondMessage ==
    /\ reviewPc = "llm"
    /\ visitedFiles' = SortSeq(SelectSeq(visitedFiles, LAMBDA w : w # ReviewFile),
                               LAMBDA a, b : a < b)
    /\ attempt' = 0
    /\ reviewPc' = "done"
    /\ UNCHANGED <<patch, round, violations, violationsToValidate, rejectedViolations,
                   messages, response, finishOrder, validation, verdictLog,
                   orchVars, cacheVars>>
    /\ UNCHANGED fnVars

\* the user cancels while the file is under review: abortController.abort()
AbortInReview ==
    /\ ~aborted
    /\ reviewPc \in {"llm", "backoff", "tools", "validate"}
    /\ aborted' = TRUE
    /\ UNCHANGED <<reviewVars, turnVars, cacheVars>>
    /\ UNCHANGED <<files, rules, sha, runState, fileQueue, processingPromises, awaited,
                   pc, returnViolations, returned, events, onCompleteCalls,
                   onAbortCalls, llmCalls, lookupHit, lookupFile, analysis>>
    /\ UNCHANGED fnVars
InitTurns ==
    /\ files = <<ReviewFile>>
    /\ rules = <<R1>>
    /\ sha = [f \in {ReviewFile} |-> 1]
    /\ runState = "running"
    /\ aborted = FALSE
    /\ fileQueue = <<>>
    /\ processingPromises = {ReviewFile}
    /\ awaited = {ReviewFile}
    /\ pc = [f \in {ReviewFile} |-> "review"]
    /\ returnViolations = {}
    /\ returned = {}
    /\ events = [f \in {ReviewFile} |-> <<"processing", "processing">>]
    /\ onCompleteCalls = 0
    /\ onAbortCalls = 0
    /\ llmCalls = [f \in {ReviewFile} |-> 1]
    /\ lookupHit = [f \in {ReviewFile} |-> FALSE]
    /\ lookupFile = [f \in {ReviewFile} |-> NoRow]
    /\ analysis = [f \in {ReviewFile} |-> NoAnalysis]
    /\ mtime = [w \in {ReviewFile, OtherFile} |-> 1]
    /\ dbFile = EmptyDb
    /\ dbData = EmptyDb
    /\ save = [f \in {ReviewFile} |-> NoSave]
    /\ runs = 1
    /\ visitLog = {}
    /\ patch = PatchAdded
    /\ reviewPc = "llm"
    /\ round = 0
    /\ violations = <<>>
    /\ violationsToValidate = <<>>
    /\ rejectedViolations = <<>>
    /\ visitedFiles = <<>>
    /\ messages = <<>>
    /\ response = <<>>
    /\ finishOrder = <<>>
    /\ attempt = 1
    /\ validation = <<>>
    /\ verdictLog = EmptyBag
    /\ NoCall

NextTurns ==
    \/ \E calls \in SeqsUpTo(TurnToolCalls, MaxTurnCalls) : TurnRespondTools(calls)
    \/ \E i \in 1..MaxTurnCalls : ToolFinishes(i)
    \/ ToolCallThrows
    \/ ToolsAllDone
    \/ \E i \in 1..MaxTurnCalls, is_valid \in BOOLEAN, reasoning \in Reasonings :
          ValidatorResponds(i, is_valid, reasoning)
    \/ \E i \in 1..MaxTurnCalls : ValidatorNoToolResponse(i)
    \/ \E i \in 1..MaxTurnCalls : ValidatorAttemptFails(i)
    \/ \E i \in 1..MaxTurnCalls : ValidatorRetry(i)
    \/ ValidationsAllDone
    \/ AttemptFails
    \/ Retry
    \/ TurnRespondMessage
    \/ AbortInReview

SpecTurns == InitTurns /\ [][NextTurns]_vars

\* C14: once the run is cancelled, the review of a file issues no further
\* completion attempt, be it a retry or a new request, of the reviewer or of
\* the validator.
C14_NoAttemptAfterAbort ==
    [][aborted => llmCalls'[ReviewFile] = llmCalls[ReviewFile]]_vars

\* C19: a completion of the reviewer or of the validator is attempted at most
\* 3 times.
C19_AtMostThreeAttempts ==
    /\ attempt <= 3
    /\ \A i \in 1..Len(validation) : validation[i].attempt <= 3

\* C15: whenever a completion is requested after a round, every assistant
\* turn of the conversation is followed by one tool turn per tool call, with
\* the id of that call, in the order of the calls, and by nothing else.
C15_ToolTurnsInCallOrder ==
    reviewPc \in {"llm", "backoff", "validate", "done"} =>
        \A a \in 1..Len(messages) :
            messages[a].role = "assistant" =>
                LET tool_calls == messages[a].tool_calls
                    last == a + Len(tool_calls)
                IN  /\ last <= Len(messages)
                    /\ \A k \in 1..Len(tool_calls) :
                          messages[a + k] = ToolTurn(tool_calls[k].id)
                    /\ last < Len(messages) => messages[last + 1].role = "assistant"

\* two tool executions finished in the reverse order and the next completion
\* has been requested
C15_Witness ==
    /\ reviewPc = "llm"
    /\ attempt = 1
    /\ finishOrder = <<2, 1>>
    /\ Len(messages) = 3

CountIn(s, x) == Cardinality({i \in 1..Len(s) : s[i] = x})

\* the complaint calls of the conversation the executor accepts yield v
StemsFromAcceptedComplaint(v) ==
    \E a \in 1..Len(messages) : \E k \in 1..Len(messages[a].tool_calls) :
        LET toolCall == messages[a].tool_calls[k].function
            rs == filterRules(rules, ReviewFile)
            toolResult == executeCodeReviewTool([filename |-> ReviewFile, patch |-> patch],
                                                rs, toolCall)
        IN  /\ toolCall.name = "complaint"
            /\ ~toolResult.error
            /\ ViolationOf(toolResult.value, rs) = v

\* C16: when the review returns, its violations are the accepted complaints
\* the validator judged valid, its rejectedViolations are those it judged
\* invalid, each with the validator's reasoning, and every judged complaint is
\* in exactly one of the two lists.
C16_ViolationsAreTheValidatedComplaints ==
    reviewPc = "done" =>
        /\ \A e \in BagToSet(verdictLog) :
              IF e.is_valid
              THEN CountIn(violations, e.violation @@ [validationReasoning |-> e.reasoning])
                       = CopiesIn(e, verdictLog)
              ELSE CountIn(rejectedViolations,
                           [violation |-> e.violation, reasoning |-> e.reasoning])
                       = CopiesIn(e, verdictLog)
        /\ \A i \in 1..Len(violations) :
              \E e \in BagToSet(verdictLog) :
                  /\ e.is_valid
                  /\ violations[i] = e.violation @@ [validationReasoning |-> e.reasoning]
                  /\ StemsFromAcceptedComplaint(e.violation)
        /\ \A i \in 1..Len(rejectedViolations) :
              \E e \in BagToSet(verdictLog) :
                  /\ ~e.is_valid
                  /\ rejectedViolations[i] = [violation |-> e.violation, reasoning |-> e.reasoning]
        /\ Len(violations) + Len(rejectedViolations) = BagCardinality(verdictLog)

\* a review has returned with one complaint kept and one turned down
C16_Witness ==
    /\ reviewPc = "done"
    /\ Len(violations) >= 1
    /\ Len(rejectedViolations) >= 1

\* C29: the pseudo-patch of a deleted file reports every line of the deleted
\* content as a removed old line, and a left-side reference to any of these
\* lines is valid for the patch.
C29_DeletedFileLinesAreChanges ==
    patch = PatchDeleted =>
        \A n \in 1..Len(patch) :
            /\ n \in parseLines(patch).removed
            /\ isLineReferenceValidForPatch(
                   [start |-> JsNumber(2 * n), end |-> JsNumber(2 * n), side |-> "left"], patch)

\* C30: a run that was never cancelled and has returned has called onComplete
\* once and onAbort not at all.
C30_NoAbortHookWithoutCancel ==
    (runState = "returned" /\ ~aborted) => (onCompleteCalls = 1 /\ onAbortCalls = 0)

-----------------------------------------------------------------------------
(* Library functions, one call at a time: patchParser.ts *)

\* the orchestrator and the cache are not running
NoRun ==
    /\ files = <<>>
    /\ rules = <<>>
    /\ sha = <<>>
    /\ runState = "idle"
    /\ aborted = FALSE
    /\ fileQueue = <<>>
    /\ processingPromises = {}
    /\ awaited = {}
    /\ pc = <<>>
    /\ returnViolations = {}
    /\ returned = {}
    /\ events = <<>>
    /\ onCompleteCalls = 0
    /\ onAbortCalls = 0
    /\ llmCalls = <<>>
    /\ lookupHit = <<>>
    /\ lookupFile = <<>>
    /\ analysis = <<>>
    /\ mtime = <<>>
    /\ dbFile = EmptyDb
    /\ dbData = EmptyDb
    /\ save = <<>>
    /\ runs = 0
    /\ visitLog = {}

\* a context line of an empty source line: its text is one space
BlankLine == PatchLine("blank")

\* what the startsWith tests of extractDiffHunk make of a line
LineKind(line) == IF line.k \in {"@@", "+", "-", "\\"} THEN line.k ELSE " "

\* first pass of extractDiffHunk: the hunk and the violation boundaries.
\* Indices count from 1; 0 stands for the -1 of the code.
RECURSIVE FindViolation(_, _, _, _, _, _)
FindViolation(lines, i, startLine, endLine, side, st) ==
    IF i > Len(lines) THEN st
    ELSE LET line == lines[i]
             k == LineKind(line)
             inRange(n) == n >= startLine /\ n <= endLine
             found == [st EXCEPT !.violationStart = IF @ = 0 THEN i ELSE @,
                                 !.targetHunkStart =
                                     IF st.violationStart = 0 THEN st.currentHunkStart ELSE @,
                                 !.violationEnd = i]
             next ==
               CASE k = "@@" ->
                      [st EXCEPT !.currentOldLine = line.os, !.currentNewLine = line.ns,
                                 !.inHunk = TRUE, !.currentHunkStart = i]
                 [] k # "@@" /\ ~st.inHunk -> st
                 [] k = "+" /\ st.inHunk ->
                      [(IF side = "right" /\ inRange(st.currentNewLine) THEN found ELSE st)
                          EXCEPT !.currentNewLine = @ + 1]
                 [] k = "-" /\ st.inHunk ->
                      [(IF side = "left" /\ inRange(st.currentOldLine) THEN found ELSE st)
                          EXCEPT !.currentOldLine = @ + 1]
                 [] k = " " /\ st.inHunk ->
                      [(IF \/ side = "right" /\ inRange(st.currentNewLine)
                           \/ side = "left" /\ inRange(st.currentOldLine)
                        THEN found ELSE st)
                          EXCEPT !.currentNewLine = @ + 1, !.currentOldLine = @ + 1]
                 [] OTHER -> st
         IN  FindViolation(lines, i + 1, startLine, endLine, side, next)

\* the indices extractDiffHunk collects: the violation with its context
\* lines, without header lines; <<>> when no violation line was found
extractedLineIndices(lines, startLine, endLine, side, contextLines) ==
    LET st == FindViolation(lines, 1, startLine, endLine, side,
                  [currentOldLine |-> 0, currentNewLine |-> 0, inHunk |-> FALSE,
                   currentHunkStart |-> 0, targetHunkStart |-> 0,
                   violationStart |-> 0, violationEnd |-> 0])
        contextStart == Max(st.targetHunkStart + 1, st.violationStart - contextLines)
        contextEnd == Min(Len(lines), st.violationEnd + contextLines)
    IN  [found |-> st.violationStart # 0 /\ st.violationEnd # 0 /\ st.targetHunkStart # 0,
         indices |-> IF st.violationStart = 0 \/ st.targetHunkStart = 0 THEN <<>>
                     ELSE SelectSeq([j \in 1..(contextEnd - contextStart + 1) |->
                                        contextStart + j - 1],
                                    LAMBDA i : lines[i].k # "@@"),
         targetHunkStart |-> st.targetHunkStart]

\* second pass: the line numbers of the extracted portion
RECURSIVE HunkLineNumbersFrom(_, _, _, _, _)
HunkLineNumbersFrom(lines, i, indices, targetHunkStart, st) ==
    IF i > Len(lines) THEN st
    ELSE LET line == lines[i]
             k == LineKind(line)
             started == [st EXCEPT
                 !.extractedOldStart = IF @ = -1 THEN st.currentOldLine ELSE @,
                 !.extractedNewStart = IF @ = -1 THEN st.currentNewLine ELSE @]
             go(next) == HunkLineNumbersFrom(lines, i + 1, indices, targetHunkStart, next)
         IN  CASE k = "@@" /\ (targetHunkStart = 0 \/ i = targetHunkStart) ->
                    go([st EXCEPT !.currentOldLine = line.os, !.currentNewLine = line.ns,
                                  !.inHunk = TRUE])
               [] ~(k = "@@" /\ (targetHunkStart = 0 \/ i = targetHunkStart))
                  /\ (~st.inHunk \/ (targetHunkStart # 0 /\ i < targetHunkStart)) -> go(st)
               [] OTHER ->
                    IF i \in RangeOf(indices)
                    THEN CASE k = "+" ->
                                go([started EXCEPT !.extractedNewCount = @ + 1,
                                                   !.currentNewLine = @ + 1])
                           [] k = "-" ->
                                go([started EXCEPT !.extractedOldCount = @ + 1,
                                                   !.currentOldLine = @ + 1])
                           [] k = "\\" -> go(st)
                           [] OTHER ->
                                go([started EXCEPT !.extractedOldCount = @ + 1,
                                                   !.extractedNewCount = @ + 1,
                                                   !.currentOldLine = @ + 1,
                                                   !.currentNewLine = @ + 1])
                    ELSE IF targetHunkStart # 0 /\ i > targetHunkStart /\ k = "@@"
                    THEN st
                    ELSE CASE k = "+" -> go([st EXCEPT !.currentNewLine = @ + 1])
                           [] k = "-" -> go([st EXCEPT !.currentOldLine = @ + 1])
                           [] k = " " -> go([st EXCEPT !.currentOldLine = @ + 1,
                                                       !.currentNewLine = @ + 1])
                           [] OTHER -> go(st)

calculateHunkLineNumbers(lines, indices, targetHunkStart) ==
    LET st == HunkLineNumbersFrom(lines, 1, indices, targetHunkStart,
                  [currentOldLine |-> 0, currentNewLine |-> 0, inHunk |-> FALSE,
                   extractedOldStart |-> -1, extractedOldCount |-> 0,
                   extractedNewStart |-> -1, extractedNewCount |-> 0])
    IN  [extractedOldStart |-> IF st.extractedOldStart = -1 THEN 1 ELSE st.extractedOldStart,
         extractedOldCount |-> st.extractedOldCount,
         extractedNewStart |-> IF st.extractedNewStart = -1 THEN 1 ELSE st.extractedNewStart,
         extractedNewCount |-> st.extractedNewCount]

\* "s,0", "s" or "s,n": the start, and the count unless it is 1
HunkSpec(start, count) == IF count = 1 THEN <<start>> ELSE <<start, count>>
\* the count a header spec states: (\d+)(?:,(\d+))?, 1 when left out
CountOf(spec) == IF Len(spec) = 1 THEN 1 ELSE spec[2]

\* the text extractDiffHunk returns: its header and its body lines, <<>> for ""
extractDiffHunk(lines, startLine, endLine, side, contextLines) ==
    LET ex == extractedLineIndices(lines, startLine, endLine, side, contextLines)
        hunkInfo == calculateHunkLineNumbers(lines, ex.indices, ex.targetHunkStart)
    IN  IF ~ex.found
        THEN <<>>
        ELSE <<[oldSpec |-> HunkSpec(hunkInfo.extractedOldStart, hunkInfo.extractedOldCount),
                newSpec |-> HunkSpec(hunkInfo.extractedNewStart, hunkInfo.extractedNewCount),
                indices |-> ex.indices,
                body |-> [j \in 1..Len(ex.indices) |-> lines[ex.indices[j]]]]>>

\* HUNK_RE: a hunk header, leading white space allowed
IsHunkHeader(line) == line.k \in {"@@", " @@"}

\* the Line kind parseUnifiedDiff gives a line inside a hunk
UnifiedKind(line) ==
    CASE line.k = "+" -> "add"
      [] line.k = "-" -> "del"
      [] line.k = "\\" -> "meta"
      [] OTHER -> "ctx"

\* parseUnifiedDiff on the text of one file: the lines before the first hunk
\* header are file headers, every hunk header opens a hunk
RECURSIVE parseUnifiedDiff(_, _)
parseUnifiedDiff(lines, file) ==
    IF lines = <<>> THEN file
    ELSE LET line == Head(lines)
             n == Len(file.hunks)
         IN  parseUnifiedDiff(Tail(lines),
                 IF IsHunkHeader(line)
                 THEN [file EXCEPT !.hunks = Append(@, [oldStart |-> line.os,
                                                        newStart |-> line.ns,
                                                        lines |-> <<>>])]
                 ELSE IF n = 0 THEN [file EXCEPT !.headers = Append(@, line)]
                 ELSE [file EXCEPT !.hunks[n].lines = Append(@, line)])

\* the lines of a hunk filterParsedDiff keeps
RECURSIVE keptLines(_, _, _)
keptLines(hunkLines, keepAdds, kept) ==
    IF hunkLines = <<>> THEN kept
    ELSE LET ln == Head(hunkLines)
             kind == UnifiedKind(ln)
             keep == \/ kind = "meta" /\ Len(kept) > 0
                     \/ kind = "ctx"
                     \/ kind = "add" /\ keepAdds
                     \/ kind = "del" /\ ~keepAdds
         IN  keptLines(Tail(hunkLines), keepAdds, IF keep THEN Append(kept, ln) ELSE kept)

CountKinds(ls, kinds) == Cardinality({i \in 1..Len(ls) : UnifiedKind(ls[i]) \in kinds})

\* filterParsedDiff and renderUnifiedDiff for the hunks of one file: the
\* rebuilt header with the recomputed counts, then the kept lines
RECURSIVE renderFiltered(_, _)
renderFiltered(hunks, keepAdds) ==
    IF hunks = <<>> THEN <<>>
    ELSE LET h == Head(hunks)
             kept == keptLines(h.lines, keepAdds, <<>>)
             oldCount == CountKinds(kept, {"ctx", "del"})
             newCount == CountKinds(kept, {"ctx", "add"})
             hasMaterial == CountKinds(kept, {"ctx", "add", "del"}) > 0
                            /\ (oldCount > 0 \/ newCount > 0)
         IN  (IF hasMaterial
              THEN <<HunkHeader(h.oldStart, oldCount, h.newStart, newCount)>> \o kept
              ELSE <<>>)
             \o renderFiltered(Tail(hunks), keepAdds)

\* String.prototype.trim on the joined text: a line of white space only at
\* either end of the text goes away with its line break
RECURSIVE trim(_)
trim(out) ==
    IF out = <<>> THEN out
    ELSE IF Head(out).k = "blank" THEN trim(Tail(out))
    ELSE IF out[Len(out)].k = "blank" THEN trim(SubSeq(out, 1, Len(out) - 1))
    ELSE out

filterDiff(diffText, mode) ==
    LET file == parseUnifiedDiff(diffText, [headers |-> <<>>, hunks |-> <<>>])
        hunks == renderFiltered(file.hunks, mode = "additions")
    IN  trim(IF hunks = <<>> THEN <<>> ELSE file.headers \o hunks)

\* two hunks
PatchTwoHunks ==
    <<HunkHeader(1, 2, 1, 3), PatchLine(" "), PatchLine("+"), PatchLine(" "),
      HunkHeader(10, 1, 11, 2), PatchLine(" "), PatchLine("+")>>
\* a changed line followed by an empty source line
PatchBlankTail ==
    <<HunkHeader(1, 3, 1, 3), PatchLine(" "), PatchLine("-"), PatchLine("+"), BlankLine>>
ParserPatches ==
    {PatchAdded, PatchChanged, PatchDeleted, PatchOfDiff, PatchTwoHunks, PatchBlankTail}

(* Library functions, one call at a time: tools.ts, the path guard and read_file.
   A path is the sequence of its characters. *)

\* the segments of a path: String.prototype.split("/")
RECURSIVE SplitPath(_, _)
SplitPath(str, seg) ==
    IF str = <<>> THEN <<seg>>
    ELSE IF Head(str) = "/" THEN <<seg>> \o SplitPath(Tail(str), <<>>)
    ELSE SplitPath(Tail(str), Append(seg, Head(str)))

\* the segments left when "", "." and ".." are worked off
RECURSIVE NormalSegments(_, _)
NormalSegments(segs, acc) ==
    IF segs = <<>> THEN acc
    ELSE LET seg == Head(segs)
         IN  NormalSegments(Tail(segs),
                 IF seg = <<>> \/ seg = <<".">> THEN acc
                 ELSE IF seg = <<".", ".">>
                 THEN (IF acc = <<>> THEN acc ELSE SubSeq(acc, 1, Len(acc) - 1))
                 ELSE Append(acc, seg))

RECURSIVE JoinPath(_)
JoinPath(segs) == IF segs = <<>> THEN <<>> ELSE <<"/">> \o Head(segs) \o JoinPath(Tail(segs))

\* path.resolve(baseDir, userPath) for an absolute baseDir
resolve(baseDir, userPath) ==
    LET from == IF userPath # <<>> /\ Head(userPath) = "/" THEN userPath
                ELSE baseDir \o <<"/">> \o userPath
        segs == NormalSegments(SplitPath(from, <<>>), <<>>)
    IN  IF segs = <<>> THEN <<"/">> ELSE JoinPath(segs)

startsWith(str, prefix) ==
    Len(prefix) <= Len(str) /\ SubSeq(str, 1, Len(prefix)) = prefix

\* null
NoPath == <<>>

safePathWithoutSeparator(baseDir, userPath) ==
    LET normalizedBase == resolve(baseDir, <<>>)
        normalizedPath == resolve(baseDir, userPath)
    IN  IF startsWith(normalizedPath, normalizedBase) THEN normalizedPath ELSE NoPath
safePath(baseDir, userPath) ==
    LET normalizedBase == resolve(baseDir, <<>>)
        normalizedPath == resolve(baseDir, userPath)
    IN  IF normalizedPath = normalizedBase THEN normalizedPath
        ELSE IF startsWith(normalizedPath, normalizedBase \o <<"/">>) THEN normalizedPath
        ELSE NoPath

\* the file system: the workspace /w/a with the file x, and its sibling /w/ab
Cwd == <<"/", "w", "/", "a">>
FsDirectories == {<<"/">>, <<"/", "w">>, Cwd, <<"/", "w", "/", "a", "b">>}
FsFiles == {Cwd \o <<"/", "x">>, <<"/", "w", "/", "a", "b", "/", "x">>}
fileExists(path) == path \in FsDirectories \cup FsFiles
\* the number of lines of every file
FileLength == 4

ToolError(accessed) == [error |-> TRUE, content |-> <<>>, accessed |-> accessed]
ToolContent(content, accessed) == [error |-> FALSE, content |-> content, accessed |-> accessed]
Omitted(from, to) == [kind |-> "omitted", from |-> from, to |-> to]
FileLinesOf(from, to) == [i \in 1..(to - from + 1) |-> [kind |-> "line", from |-> from + i - 1, to |-> from + i - 1]]

\* readFileRange on a file of FileLength lines; startLine and endLine are numbers
readFileRange(startLine, endLine) ==
    LET start == Max(0, startLine - 1)
        end == Min(FileLength, endLine)
    IN  IF start = 0 /\ end = FileLength THEN FileLinesOf(1, FileLength)
        ELSE (IF start > 0 THEN <<Omitted(1, start)>> ELSE <<>>)
             \o FileLinesOf(start + 1, end)
             \o (IF end < FileLength THEN <<Omitted(end + 1, FileLength)>> ELSE <<>>)

\* read_file; accessed: the paths the call touched on the file system
readFile(parameters, cwd) ==
    LET absolutePath == safePath(cwd, parameters.target_file)
        start == ToNumber(parameters.start_line_one_indexed)
        end == ToNumber(parameters.end_line_one_indexed)
    IN  IF absolutePath = NoPath THEN ToolError({})
        ELSE IF ~fileExists(absolutePath) THEN ToolError({absolutePath})
        ELSE IF parameters.should_read_entire_file
        THEN (IF absolutePath \in FsFiles
              THEN ToolContent(FileLinesOf(1, FileLength), {absolutePath})
              ELSE ToolError({absolutePath}))
        ELSE IF start.nan \/ end.nan \/ start.h < 2 \/ end.h < start.h
        THEN ToolError({absolutePath})
        ELSE IF absolutePath \in FsFiles
        THEN ToolContent(readFileRange(start.h \div 2, end.h \div 2), {absolutePath})
        ELSE ToolError({absolutePath})

\* list_dir
listDir(parameters, cwd) ==
    LET absolutePath == safePath(cwd, parameters.relative_workspace_path)
    IN  IF absolutePath = NoPath THEN ToolError({})
        ELSE IF ~fileExists(absolutePath) \/ absolutePath \notin FsDirectories
        THEN ToolError({absolutePath})
        ELSE ToolContent(<<>>, {absolutePath})

\* glob_search: an empty path searches the working directory
globSearch(parameters, cwd) ==
    LET safeDirPath == safePath(cwd, parameters.path)
        targetDir == IF parameters.path = <<>> THEN cwd ELSE safeDirPath
    IN  IF parameters.path # <<>> /\ safeDirPath = NoPath THEN ToolError({})
        ELSE IF ~fileExists(targetDir) \/ targetDir \notin FsDirectories
        THEN ToolError({targetDir})
        ELSE ToolContent(<<>>, {targetDir})

\* the paths a tool call may carry
UserPaths ==
    {<<>>, <<".">>, <<"x">>, <<"y">>, <<".", "/", "x">>, <<".", ".">>,
     <<".", ".", "/", "a", "/", "x">>, <<".", ".", "/", "a", "b", "/", "x">>,
     <<".", ".", "/", "a", "b">>, <<"x", "/", ".", ".", "/", ".", ".", "/", "a", "b">>,
     <<"/", "w", "/", "a", "/", "x">>, <<"/", "w", "/", "a", "b", "/", "x">>, <<"/", "w">>}

LineNumbers == {JsNumber(2 * n) : n \in 0..(FileLength + 1)}

\* read_file calls: whole-file reads, range reads with the arguments named as
\* in the tool schema (end_line_one_indexed_inclusive), and range reads with
\* the end named end_line_one_indexed
ReadFileCalls ==
    [fn : {"read_file"}, target_file : UserPaths, should_read_entire_file : {TRUE},
     start_line_one_indexed : {Undefined}, end_line_one_indexed : {Undefined},
     end_line_one_indexed_inclusive : {Undefined}]
    \cup [fn : {"read_file"}, target_file : {<<"x">>, <<"y">>},
          should_read_entire_file : {FALSE},
          start_line_one_indexed : LineNumbers, end_line_one_indexed : {Undefined},
          end_line_one_indexed_inclusive : LineNumbers]
    \cup [fn : {"read_file"}, target_file : {<<"x">>}, should_read_entire_file : {FALSE},
          start_line_one_indexed : LineNumbers, end_line_one_indexed : LineNumbers,
          end_line_one_indexed_inclusive : {Undefined}]
ListDirCalls == [fn : {"list_dir"}, relative_workspace_path : UserPaths]
GlobSearchCalls == [fn : {"glob_search"}, path : UserPaths]

ReadFile ==
    /\ call.fn = "read_file"
    /\ result = Pending
    /\ result' = <<readFile(call, Cwd)>>
    /\ UNCHANGED <<call, orchVars, cacheVars, reviewVars, turnVars>>

ListDir ==
    /\ call.fn = "list_dir"
    /\ result = Pending
    /\ result' = <<listDir(call, Cwd)>>
    /\ UNCHANGED <<call, orchVars, cacheVars, reviewVars, turnVars>>

GlobSearch ==
    /\ call.fn = "glob_search"
    /\ result = Pending
    /\ result' = <<globSearch(call, Cwd)>>
    /\ UNCHANGED <<call, orchVars, cacheVars, reviewVars, turnVars>>

(* Library functions, one call at a time: the rules (matchesInclude, newRule,
   getRulesFromDirectory, parseFrontmatter).  A string is the sequence of its
   characters. *)

Includes(str, sub) ==
    \E i \in 1..(Len(str) - Len(sub) + 1) : SubSeq(str, i, i + Len(sub) - 1) = sub

\* minimatch on the patterns used here: literal characters, * within a path
\* segment, and ** as a whole segment for any number of directories
RECURSIVE GlobMatch(_, _, _)
GlobMatch(pattern, str, atSegmentStart) ==
    IF pattern = <<>> THEN str = <<>>
    ELSE IF atSegmentStart /\ pattern = <<"*", "*">> THEN TRUE
    ELSE IF atSegmentStart /\ Len(pattern) >= 3 /\ SubSeq(pattern, 1, 3) = <<"*", "*", "/">>
    THEN \/ GlobMatch(SubSeq(pattern, 4, Len(pattern)), str, TRUE)
         \/ \E i \in 1..Len(str) :
               str[i] = "/" /\ GlobMatch(pattern, SubSeq(str, i + 1, Len(str)), TRUE)
    ELSE IF Head(pattern) = "*"
    THEN \/ GlobMatch(Tail(pattern), str, FALSE)
         \/ str # <<>> /\ Head(str) # "/" /\ GlobMatch(pattern, Tail(str), FALSE)
    ELSE /\ str # <<>>
         /\ Head(str) = Head(pattern)
         /\ GlobMatch(Tail(pattern), Tail(str), Head(pattern) = "/")

\* path.basename
RECURSIVE basename(_)
basename(str) ==
    IF \E i \in 1..Len(str) : str[i] = "/"
    THEN basename(Tail(str)) ELSE str

\* minimatch(filePath, pattern, { matchBase: true, ... }): a pattern without
\* a slash is matched against the base name
minimatch(filePath, pattern) ==
    IF Includes(pattern, <<"/">>) THEN GlobMatch(pattern, filePath, TRUE)
    ELSE GlobMatch(pattern, basename(filePath), TRUE)

\* pattern.replace(/([^/])\*([^/])/g, "$1**$2") unless the pattern has a **
RECURSIVE WidenStars(_)
WidenStars(pattern) ==
    IF Len(pattern) < 3 THEN pattern
    ELSE IF pattern[1] # "/" /\ pattern[2] = "*" /\ pattern[3] # "/"
    THEN <<pattern[1], "*", "*", pattern[3]>> \o WidenStars(SubSeq(pattern, 4, Len(pattern)))
    ELSE <<Head(pattern)>> \o WidenStars(Tail(pattern))
expandedPattern(pattern) ==
    IF Includes(pattern, <<"*", "*">>) THEN pattern ELSE WidenStars(pattern)

\* the pattern as matchesInclude adjusts it to the directory of the rule
patternToCheck(directory, pattern) ==
    LET negated == pattern # <<>> /\ Head(pattern) = "!"
        bare == IF negated THEN Tail(pattern) ELSE pattern
    IN  IF (bare # <<>> /\ Head(bare) = "/") \/ startsWith(bare, directory) THEN pattern
        ELSE (IF negated THEN <<"!">> ELSE <<>>) \o directory \o <<"/">> \o bare

matchesInclude(rule, filePath) ==
    IF Len(rule.include) = 0 THEN TRUE
    ELSE LET scoped == rule.directory # <<>> /\ rule.directory # <<".">>
             patternsToCheck ==
                 [i \in 1..Len(rule.include) |->
                     IF scoped THEN patternToCheck(rule.directory, rule.include[i])
                     ELSE rule.include[i]]
             isExclude(pattern) == pattern # <<>> /\ Head(pattern) = "!"
             includePatterns == SelectSeq(patternsToCheck, LAMBDA q : ~isExclude(q))
             excludePatterns == SelectSeq(patternsToCheck, isExclude)
             isIncluded ==
                 \/ Len(includePatterns) = 0
                 \/ \E i \in 1..Len(includePatterns) :
                       minimatch(filePath, expandedPattern(includePatterns[i]))
             isExcluded ==
                 \E i \in 1..Len(excludePatterns) :
                     minimatch(filePath, expandedPattern(Tail(excludePatterns[i])))
         IN  isIncluded /\ ~isExcluded

\* the directory src is written s, the extension .js is written .j
RuleDirectories == {<<>>, <<".">>, <<"s">>}
IncludeLists ==
    {<<>>, <<<<"*", "*", "/", "*", ".", "j">>>>, <<<<"*", "*", "/", "*", ".", "j">>, <<"!", "*", "*", "/", "*", ".", "t", ".", "j">>>>, <<<<"!", "*", "*", "/", "*", ".", "t", ".", "j">>>>, <<<<"s", "2", "/", "*", "*">>>>, <<<<"*", ".", "j">>>>}
FilePaths ==
    {<<"s", "/", "a", ".", "j">>, <<"s", "/", "b", "/", "a", ".", "j">>, <<"s", "/", "b", "/", "a", ".", "t", ".", "j">>, <<"l", "/", "a", ".", "j">>, <<"s", "2", "/", "a", ".", "j">>, <<"a", ".", "j">>}
MatchesIncludeCalls ==
    [fn : {"matchesInclude"}, directory : RuleDirectories, include : IncludeLists,
     filePath : FilePaths]

MatchesInclude ==
    /\ call.fn = "matchesInclude"
    /\ result = Pending
    /\ result' = <<matchesInclude(call, call.filePath)>>
    /\ UNCHANGED <<call, orchVars, cacheVars, reviewVars, turnVars>>

(* newRule, and the rules read from the markdown files of a rules directory. *)

IsSpace(c) == c \in {" ", "\n"}
RECURSIVE trimStart(_)
trimStart(str) ==
    IF str # <<>> /\ IsSpace(Head(str)) THEN trimStart(Tail(str)) ELSE str
RECURSIVE trimEnd(_)
trimEnd(str) ==
    IF str # <<>> /\ IsSpace(str[Len(str)]) THEN trimEnd(SubSeq(str, 1, Len(str) - 1))
    ELSE str
\* String.prototype.trim
trimString(str) == trimEnd(trimStart(str))

\* str.split(sep) for a separator of one character; current starts empty
RECURSIVE split(_, _, _)
split(str, sep, current) ==
    IF str = <<>> THEN <<current>>
    ELSE IF Head(str) = sep THEN <<current>> \o split(Tail(str), sep, <<>>)
    ELSE split(Tail(str), sep, Append(current, Head(str)))

\* lines.join("\n")
RECURSIVE join(_)
join(lines) ==
    IF lines = <<>> THEN <<>>
    ELSE IF Len(lines) = 1 THEN Head(lines)
    ELSE Head(lines) \o <<"\n">> \o join(Tail(lines))

\* the first index at or after from where sub occurs in str, 0 when none
RECURSIVE indexOf(_, _, _)
indexOf(str, sub, from) ==
    IF from + Len(sub) - 1 > Len(str) THEN 0
    ELSE IF SubSeq(str, from, from + Len(sub) - 1) = sub THEN from
    ELSE indexOf(str, sub, from + 1)

\* the glyphs newRule strips, each one character of a string
Glyphs == {"U+2705", "U+274C", "U+2713", "U+2717", "U+274E"}

\* /^#{1,3}\s/.test(line)
IsHeading(line) ==
    \E n \in 1..3 :
        /\ Len(line) > n
        /\ \A i \in 1..n : line[i] = "#"
        /\ IsSpace(line[n + 1])

\* sha256 of the string: equal digests for equal strings only
hashString(str) == [sha256 |-> str]

newRule(args) ==
    LET lines == split(args.contents, "\n", <<>>)
        nonEmpty == {i \in 1..Len(lines) : trimString(lines[i]) # <<>>}
        firstNonEmptyLineIndex ==
            IF nonEmpty = {} THEN 0
            ELSE CHOOSE i \in nonEmpty : \A j \in nonEmpty : i <= j
        processedContents ==
            IF firstNonEmptyLineIndex # 0
               /\ IsHeading(trimString(lines[firstNonEmptyLineIndex]))
            THEN trimString(join(SubSeq(lines, 1, firstNonEmptyLineIndex - 1)
                                 \o SubSeq(lines, firstNonEmptyLineIndex + 1, Len(lines))))
            ELSE args.contents
    IN  [id |-> hashString(IF args.directory # <<>> THEN args.directory \o args.name
                           ELSE args.name),
         directory |-> args.directory,
         name |-> args.name,
         contents |-> SelectSeq(processedContents, LAMBDA c : c \notin Glyphs),
         include |-> split(args.include, ",", <<>>)]

IsQuote(c) == c \in {"\"", "'"}

\* trimmed.replace(/^["']|["']$/g, "")
stripOuterQuotes(str) ==
    LET rest == IF str # <<>> /\ IsQuote(Head(str)) THEN Tail(str) ELSE str
    IN  IF rest # <<>> /\ IsQuote(rest[Len(rest)]) THEN SubSeq(rest, 1, Len(rest) - 1)
        ELSE rest

RECURSIVE splitPreservingBracesFrom(_, _, _)
splitPreservingBracesFrom(value, current, braceDepth) ==
    IF value = <<>>
    THEN IF trimString(current) # <<>> THEN <<trimString(current)>> ELSE <<>>
    ELSE LET char == Head(value)
         IN  IF char = "{"
             THEN splitPreservingBracesFrom(Tail(value), Append(current, char), braceDepth + 1)
             ELSE IF char = "}"
             THEN splitPreservingBracesFrom(Tail(value), Append(current, char), braceDepth - 1)
             ELSE IF braceDepth = 0 /\ char = ","
             THEN (IF trimString(current) # <<>> THEN <<trimString(current)>> ELSE <<>>)
                  \o splitPreservingBracesFrom(Tail(value), <<>>, braceDepth)
             ELSE splitPreservingBracesFrom(Tail(value), Append(current, char), braceDepth)
splitPreservingBraces(value) == splitPreservingBracesFrom(value, <<>>, 0)

\* the scan of parseIncludePatterns for a value that is not one quoted string;
\* quoteChar is "" outside quotes
RECURSIVE scanIncludePatterns(_, _, _, _)
scanIncludePatterns(value, current, quoteChar, braceDepth) ==
    LET inQuotes == quoteChar # ""
        cleaned == IF trimString(current) # <<>>
                   THEN <<stripOuterQuotes(trimString(current))>> ELSE <<>>
    IN  IF value = <<>> THEN cleaned
        ELSE LET char == Head(value)
             IN  IF ~inQuotes /\ IsQuote(char)
                 THEN scanIncludePatterns(Tail(value), Append(current, char), char, braceDepth)
                 ELSE IF inQuotes /\ char = quoteChar
                 THEN scanIncludePatterns(Tail(value), Append(current, char), "", braceDepth)
                 ELSE IF ~inQuotes /\ char = "{"
                 THEN scanIncludePatterns(Tail(value), Append(current, char), quoteChar,
                                          braceDepth + 1)
                 ELSE IF ~inQuotes /\ char = "}"
                 THEN scanIncludePatterns(Tail(value), Append(current, char), quoteChar,
                                          braceDepth - 1)
                 ELSE IF ~inQuotes /\ braceDepth = 0 /\ char = ","
                 THEN cleaned \o scanIncludePatterns(Tail(value), <<>>, quoteChar, braceDepth)
                 ELSE scanIncludePatterns(Tail(value), Append(current, char), quoteChar,
                                          braceDepth)

parseIncludePatterns(value) ==
    LET trimmedValue == trimString(value)
        last == trimmedValue[Len(trimmedValue)]
    IN  IF /\ trimmedValue # <<>>
           /\ \/ Head(trimmedValue) = "\"" /\ last = "\""
              \/ Head(trimmedValue) = "'" /\ last = "'"
        THEN splitPreservingBraces(SubSeq(trimmedValue, 2, Len(trimmedValue) - 1))
        ELSE scanIncludePatterns(trimmedValue, <<>>, "", 0)

\* the include patterns of the frontmatter lines
RECURSIVE includeOfLines(_)
includeOfLines(lines) ==
    IF lines = <<>> THEN <<>>
    ELSE LET trimmedLine == trimString(Head(lines))
             parts == split(trimmedLine, ":", <<>>)
         IN  IF trimmedLine = <<>> \/ ~Includes(trimmedLine, <<":">>)
             THEN includeOfLines(Tail(lines))
             ELSE IF trimString(parts[1]) = <<"i", "n", "c", "l", "u", "d", "e">>
             THEN parseIncludePatterns(trimString(parts[2])) \o includeOfLines(Tail(lines))
             ELSE includeOfLines(Tail(lines))

Fence == <<"-", "-", "-">>
parseFrontmatter(content) ==
    LET second == indexOf(content, Fence, 4)
        third == IF second = 0 THEN 0 ELSE indexOf(content, Fence, second + 3)
    IN  IF ~startsWith(content, Fence) \/ second = 0
        THEN [include |-> <<>>, content |-> content]
        ELSE [include |->
                  includeOfLines(split(trimString(SubSeq(content, 4, second - 1)), "\n", <<>>)),
              content |->
                  trimString(SubSeq(content, second + 3,
                                    IF third = 0 THEN Len(content) ELSE third - 1))]

MdSuffix == <<".", "m", "d">>
endsWith(str, suffix) ==
    Len(suffix) <= Len(str) /\ SubSeq(str, Len(str) - Len(suffix) + 1, Len(str)) = suffix

RECURSIVE getRulesFromDirectory(_, _)
getRulesFromDirectory(ruleFiles, subdirectoryPath) ==
    IF ruleFiles = <<>> THEN <<>>
    ELSE IF ~endsWith(Head(ruleFiles).fileName, MdSuffix)
    THEN getRulesFromDirectory(Tail(ruleFiles), subdirectoryPath)
    ELSE LET parsed == parseFrontmatter(Head(ruleFiles).content)
             fileName == Head(ruleFiles).fileName
             name == SubSeq(fileName, 1, Len(fileName) - Len(MdSuffix))
         IN  <<[id |-> hashString(subdirectoryPath \o <<"/">> \o name),
                directory |-> subdirectoryPath,
                name |-> name,
                contents |-> parsed.content,
                include |-> parsed.include]>>
             \o getRulesFromDirectory(Tail(ruleFiles), subdirectoryPath)

\* the rule bodies the calls are drawn from; t stands for a line of text
RuleBodies ==
    {<<"t">>,
     <<"#", " ", "t", "\n", "t">>,
     <<"#", "#", " ", "t", "\n", "t">>,
     <<"#", "#", "#", " ", "t", "\n", "t">>,
     <<"\n", "#", " ", "t", "\n", "t">>,
     <<"#", "#", "#", "#", " ", "t">>,
     <<"#", " ", "t", "\n", "#", "#", " ", "t", "\n", "t">>,
     <<"t", " ", "U+2705">>,
     <<"U+274C", "#", " ", "t", "\n", "t">>,
     <<"#", " ", "t", " ", "U+2705", "\n", "\n", "t", " ", "U+274C">>}
NewRuleNames == {<<"c">>, <<"b", "c">>}
NewRuleDirectories == {<<>>, <<"a">>, <<"a", "b">>}
\* newRule is called for two rules: the first varies in all its arguments
NewRuleCalls ==
    {[fn |-> "newRule",
      rules |-> <<[directory |-> d1, name |-> n1, contents |-> c, include |-> <<"a", ",", "b">>],
                  [directory |-> d2, name |-> n2, contents |-> <<"t">>, include |-> <<"a">>]>>] :
        d1 \in NewRuleDirectories, n1 \in NewRuleNames, c \in RuleBodies,
        d2 \in NewRuleDirectories, n2 \in NewRuleNames}

NewRule ==
    /\ call.fn = "newRule"
    /\ result = Pending
    /\ result' = <<[i \in 1..Len(call.rules) |-> newRule(call.rules[i])]>>
    /\ UNCHANGED <<call, orchVars, cacheVars, reviewVars, turnVars>>

\* the include values the rule files are written with
IncludeValues ==
    {<<"a", ",", "b">>,
     <<"\"", "a", ",", "b", "\"">>,
     <<"\"", "x", "\"", ",", " ", "\"", "y", "\"">>,
     <<"{", "a", ",", "b", "}">>,
     <<"a", ",", " ", "'", "x", ",", "y", "'">>,
     <<" ", "a", " ", ",", " ", "b", " ">>,
     <<"'", "a", "'">>,
     <<"\"", "x", "\"", ",", " ", "y">>}
\* the text of a rule file with the given include line and body
RuleFileText(value, body) ==
    Fence \o <<"\n", "i", "n", "c", "l", "u", "d", "e", ":", " ">> \o value \o <<"\n">>
          \o Fence \o <<"\n", "\n">> \o body
FileBodies == {<<"t">>,
               <<"#", " ", "t", "\n", "t">>,
               <<"t", " ", "U+2705">>}
RuleFiles ==
    FileBodies \cup {RuleFileText(v, body) : v \in IncludeValues, body \in FileBodies}
GetRulesFromDirectoryCalls ==
    [fn : {"getRulesFromDirectory"},
     subdirectoryPath : {<<>>, <<"s">>},
     files : {<<[fileName |-> <<"r", ".", "m", "d">>, content |-> text]>> : text \in RuleFiles}]

GetRulesFromDirectory ==
    /\ call.fn = "getRulesFromDirectory"
    /\ result = Pending
    /\ result' = <<getRulesFromDirectory(call.files, call.subdirectoryPath)>>
    /\ UNCHANGED <<call, orchVars, cacheVars, reviewVars, turnVars>>

\* the line numbers a target range is drawn from
TargetLines == (1..MaxLine) \cup {11, 12}

ExtractCalls ==
    [fn : {"extractDiffHunk"}, patch : ParserPatches, startLine : TargetLines,
     endLine : TargetLines, side : {"left", "right"}, contextLines : {1, 3}]
FilterCalls == [fn : {"filterDiff"}, patch : ParserPatches, mode : {"additions", "deletions"}]

ExtractDiffHunk ==
    /\ call.fn = "extractDiffHunk"
    /\ result = Pending
    /\ result' = <<extractDiffHunk(call.patch, call.startLine, call.endLine, call.side,
                                   call.contextLines)>>
    /\ UNCHANGED <<call, orchVars, cacheVars, reviewVars, turnVars>>

FilterDiff ==
    /\ call.fn = "filterDiff"
    /\ result = Pending
    /\ result' = <<filterDiff(call.patch, call.mode)>>
    /\ UNCHANGED <<call, orchVars, cacheVars, reviewVars, turnVars>>

InitCalls ==
    /\ NoRun
    /\ NoReview
    /\ NoTurns
    /\ call \in ExtractCalls \cup FilterCalls \cup ReadFileCalls \cup ListDirCalls
                \cup GlobSearchCalls \cup MatchesIncludeCalls
                \cup NewRuleCalls \cup GetRulesFromDirectoryCalls
    /\ result = Pending

NextCalls == ExtractDiffHunk \/ FilterDiff \/ ReadFile \/ ListDir \/ GlobSearch
             \/ MatchesInclude \/ NewRule \/ GetRulesFromDirectory

SpecCalls == InitCalls /\ [][NextCalls]_vars

\* the body of the hunk whose header is line h: the lines up to the next header
HunkBodyAt(lines, h) ==
    {i \in (h + 1)..Len(lines) : \A j \in (h + 1)..i : lines[j].k # "@@"}

\* the header line of the first hunk whose declared range on the side holds
\* [a, b], 0 when there is none
FirstHunkContaining(lines, a, b, side) ==
    LET hs == {h \in 1..Len(lines) :
                  /\ lines[h].k = "@@"
                  /\ IF side = "left"
                     THEN lines[h].os <= a /\ b <= lines[h].os + lines[h].oc - 1
                     ELSE lines[h].ns <= a /\ b <= lines[h].ns + lines[h].nc - 1}
    IN  IF hs = {} THEN 0 ELSE CHOOSE h \in hs : \A g \in hs : h <= g

\* the old and the new line number at line i of a patch
LineNumbersAt(lines, i) ==
    LET h == CHOOSE g \in 1..i : lines[g].k = "@@" /\ i \in HunkBodyAt(lines, g)
        before(kinds) == Cardinality({j \in (h + 1)..(i - 1) : LineKind(lines[j]) \in kinds})
    IN  [old |-> lines[h].os + before({" ", "-"}), new |-> lines[h].ns + before({" ", "+"})]

\* C21: a non-empty result of extractDiffHunk holds lines of the first hunk
\* containing the range only; the old count of its header is the number of
\* its context and deletion lines, the new count the number of its context
\* and addition lines, and the starts are the line numbers of its first line.
C21_ExtractedHunkIsConsistent ==
    (call # Pending /\ call.fn = "extractDiffHunk" /\ result # Pending /\ result[1] # <<>>) =>
        LET out == result[1][1]
            h == FirstHunkContaining(call.patch, call.startLine, call.endLine, call.side)
            count(kinds) == Cardinality({j \in 1..Len(out.body) : LineKind(out.body[j]) \in kinds})
        IN  /\ h # 0 => \A j \in 1..Len(out.indices) : out.indices[j] \in HunkBodyAt(call.patch, h)
            /\ CountOf(out.oldSpec) = count({" ", "-"})
            /\ CountOf(out.newSpec) = count({" ", "+"})
            /\ out.oldSpec[1] = LineNumbersAt(call.patch, out.indices[1]).old
            /\ out.newSpec[1] = LineNumbersAt(call.patch, out.indices[1]).new

\* C22: in the text filterDiff returns, the old count of every hunk header is
\* the number of context and deletion lines of its body, the new count the
\* number of context and addition lines, no hunk is without a line, and the
\* additions text has no deletion line, the deletions text no addition line.
C22_FilteredCountsMatchBody ==
    (call # Pending /\ call.fn = "filterDiff" /\ result # Pending) =>
        LET out == result[1]
        IN  /\ \A h \in 1..Len(out) :
                  out[h].k = "@@" =>
                      LET body == HunkBodyAt(out, h)
                          count(kinds) ==
                              Cardinality({i \in body : UnifiedKind(out[i]) \in kinds})
                      IN  /\ body # {}
                          /\ out[h].oc = count({"ctx", "del"})
                          /\ out[h].nc = count({"ctx", "add"})
            /\ \A i \in 1..Len(out) :
                  out[i].k # (IF call.mode = "additions" THEN "-" ELSE "+")

\* the path a read_file, list_dir or glob_search call carries
PathOfCall ==
    CASE call.fn = "read_file" -> call.target_file
      [] call.fn = "list_dir" -> call.relative_workspace_path
      [] call.fn = "glob_search" -> call.path

\* the path is the working directory or lies below it, segment by segment
InsideCwd(path) ==
    LET root == NormalSegments(SplitPath(Cwd, <<>>), <<>>)
        segs == NormalSegments(SplitPath(path, <<>>), <<>>)
    IN  Len(root) <= Len(segs) /\ SubSeq(segs, 1, Len(root)) = root

\* C23: a read_file, list_dir or glob_search call whose path resolves outside
\* the working directory returns an error and touches no path of the file
\* system, a sibling directory with the root's name as a prefix included.
C23_PathsOutsideRootRejected ==
    (/\ call # Pending
     /\ call.fn \in {"read_file", "list_dir", "glob_search"}
     /\ result # Pending
     /\ ~InsideCwd(resolve(Cwd, PathOfCall)))
        => (result[1].error /\ result[1].accessed = {})

\* read_file was called on ../ab/x, in the sibling of the root /w/a
C23_Witness ==
    /\ call # Pending
    /\ call.fn = "read_file"
    /\ call.target_file = <<".", ".", "/", "a", "b", "/", "x">>
    /\ result # Pending
    /\ result[1].error
    /\ result[1].accessed = {}

\* C24: read_file with the arguments of the tool schema, on an existing file
\* and with 1 <= a <= b, returns the lines a..b between placeholders for the
\* lines before and after, and no error.
C24_ReadsTheRequestedRange ==
    (/\ call # Pending
     /\ call.fn = "read_file"
     /\ result # Pending
     /\ ~call.should_read_entire_file
     /\ call.target_file = <<"x">>
     /\ call.end_line_one_indexed = Undefined)
        => LET a == call.start_line_one_indexed.h \div 2
               b == call.end_line_one_indexed_inclusive.h \div 2
           IN  (1 <= a /\ a <= b /\ b <= FileLength) =>
                   /\ ~result[1].error
                   /\ result[1].content =
                          (IF a > 1 THEN <<Omitted(1, a - 1)>> ELSE <<>>)
                          \o FileLinesOf(a, b)
                          \o (IF b < FileLength THEN <<Omitted(b + 1, FileLength)>> ELSE <<>>)

BeginsWithHeading(contents) ==
    LET lines == split(contents, "\n", <<>>)
    IN  \E i \in 1..Len(lines) :
           /\ IsHeading(trimString(lines[i]))
           /\ \A j \in 1..(i - 1) : trimString(lines[j]) = <<>>
HasGlyph(contents) == \E i \in 1..Len(contents) : contents[i] \in Glyphs

\* C26: the body of every rule made by newRule or read from a markdown file
\* of a rules directory begins with no heading line of one to three # and
\* holds none of the five glyphs.
C26_RuleBodiesAreStripped ==
    (/\ call # Pending
     /\ call.fn \in {"newRule", "getRulesFromDirectory"}
     /\ result # Pending)
        => \A i \in 1..Len(result[1]) :
              /\ ~BeginsWithHeading(result[1][i].contents)
              /\ ~HasGlyph(result[1][i].contents)

\* C27: two rules made by newRule have the same id exactly when they have the
\* same directory and the same name.
C27_IdsCollideOnlyOnSameDirectoryAndName ==
    (/\ call # Pending
     /\ call.fn = "newRule"
     /\ result # Pending)
        => LET r1 == result[1][1]
               r2 == result[1][2]
           IN  (r1.id = r2.id) <=> (r1.directory = r2.directory /\ r1.name = r2.name)

\* the commas of an include value outside braces and outside quoted segments
RECURSIVE SeparatorCommas(_, _, _)
SeparatorCommas(value, quoteChar, braceDepth) ==
    IF value = <<>> THEN 0
    ELSE LET char == Head(value)
         IN  IF quoteChar # ""
             THEN SeparatorCommas(Tail(value), IF char = quoteChar THEN "" ELSE quoteChar,
                                  braceDepth)
             ELSE IF IsQuote(char) THEN SeparatorCommas(Tail(value), char, braceDepth)
             ELSE IF char = "{" THEN SeparatorCommas(Tail(value), quoteChar, braceDepth + 1)
             ELSE IF char = "}" THEN SeparatorCommas(Tail(value), quoteChar, braceDepth - 1)
             ELSE (IF char = "," /\ braceDepth = 0 THEN 1 ELSE 0)
                  + SeparatorCommas(Tail(value), quoteChar, braceDepth)

\* C28: the include value of a rule file is split only at commas outside
\* braces and outside quoted segments, and no resulting pattern keeps
\* surrounding whitespace or surrounding quotes.
C28_IncludeSplitRespectsQuotesAndBraces ==
    (/\ call # Pending
     /\ call.fn = "getRulesFromDirectory"
     /\ result # Pending)
        => \A v \in IncludeValues, body \in FileBodies :
              call.files[1].content = RuleFileText(v, body)
                 => LET include == result[1][1].include
                    IN  /\ Len(include) <= 1 + SeparatorCommas(v, "", 0)
                        /\ \A i \in 1..Len(include) :
                              /\ include[i] # <<>>
                              /\ ~IsSpace(Head(include[i]))
                              /\ ~IsSpace(include[i][Len(include[i])])
                              /\ ~IsQuote(Head(include[i]))
                              /\ ~IsQuote(include[i][Len(include[i])])

====
